---- MODULE Spec2Model ----
(***************************************************************************)
(* Aardwolf LLVM frontend: the Access model (Statement.h / Statement.cpp), *)
(* the statement repository (StatementRepository.cpp) and the statement    *)
(* detection pass (StatementDetection.cpp, Tools.cpp), the serializer of  *)
(* the static artifact (StaticData.cpp), the instrumenter                  *)
(* (DynamicData.cpp), the driver (Main.cpp) and the runtime (runtime.c),   *)
(* as state machines.                                                      *)
(*                                                                         *)
(* IR values are identified by their handle (the llvm::Value pointer), a   *)
(* positive integer; 0 is the null pointer.  A nullable shared_ptr<Access> *)
(* is a sequence of length 0 (nullptr) or 1.                               *)
(***************************************************************************)
EXTENDS Integers, Sequences, FiniteSets, TLC

VARIABLES
    M,              \* the llvm::Module handed to the passes
    InstrStmtMap,   \* StatementRepository::InstrStmtMap
    FuncInstrsMap,  \* StatementRepository::FuncInstrsMap
    InstrSucc,      \* StatementRepository::InstrSucc
    StmtsIdMap,     \* StatementRepository::StmtsIdMap
    ValuesIdMap,    \* StatementRepository::ValuesIdMap
    FilesIdMap,     \* StatementRepository::FilesIdMap
    pc,             \* position of the running pass / harness
    loop,           \* runBase: indices of the function, block, instruction loops
    First,          \* runBase: first detected statement of the current block
    Prev,           \* runBase: previous detected statement of the current block
    BBBounds,       \* runBase: block -> <<first, last>> statement
    BBPred,         \* runBase: the queue of predecessor blocks
    lhs,            \* Access harness: left operand
    rhs,            \* Access harness: right operand
    cmp,            \* Access harness: results of operator== , hash, set insertion
    calls,          \* repository harness: log of the ids returned to callers
    artifact,       \* the static artifact: <<>> while there is none, else <<its bytes>>
    Injected,       \* the calls DynamicData injected: handle -> [callee, args]
    tool,           \* the pass pipeline and the driver: what ran, what it returned
    aardwolf_fd,    \* runtime: __aardwolf_fd, <<>> while NULL
    disk,           \* runtime: the bytes of aard.trace the operating system holds
    stream,         \* runtime: the bytes in the FILE buffer, not yet flushed
    trace,          \* runtime: the API calls made so far, in call order
    build           \* runtime: the macros the runtime was compiled with

repoVars == <<InstrStmtMap, FuncInstrsMap, InstrSucc, StmtsIdMap, ValuesIdMap, FilesIdMap>>
passVars == <<loop, First, Prev, BBBounds, BBPred>>
accVars  == <<lhs, rhs, cmp>>
toolVars == <<artifact, Injected, tool>>
rtVars   == <<aardwolf_fd, disk, stream, trace, build>>
vars == <<M, InstrStmtMap, FuncInstrsMap, InstrSucc, StmtsIdMap, ValuesIdMap,
          FilesIdMap, pc, loop, First, Prev, BBBounds, BBPred, lhs, rhs, cmp, calls,
          artifact, Injected, tool, aardwolf_fd, disk, stream, trace, build>>

NullPtr == 0

(***************************************************************************)
(* Bounds of the Access harness.                                           *)
(***************************************************************************)
NumValues == 2
MaxAccessors == 1
MaxDepth == 2

(***************************************************************************)
(* Access (Statement.h, Statement.cpp)                                     *)
(***************************************************************************)

\* enum AccessType { Structural, ArrayLike }: the enumerators' values.
AccessTypeValue(Type) == IF Type = "Structural" THEN 0 ELSE 1

\* Access(const llvm::Value *Value): Base(nullptr), Type(Structural).
makeScalar(Value) ==
    [Value |-> Value, Base |-> <<>>, Accessors |-> <<>>, Type |-> "Structural"]

makeStructural(Base, Field) ==
    [Value |-> NullPtr, Base |-> <<Base>>, Accessors |-> <<Field>>, Type |-> "Structural"]

makeArrayLike(Base, Index) ==
    [Value |-> NullPtr, Base |-> <<Base>>, Accessors |-> Index, Type |-> "ArrayLike"]

isScalar(A) == A.Value # NullPtr

RECURSIVE getValueOrBase(_)
getValueOrBase(A) == IF isScalar(A) THEN A.Value ELSE getValueOrBase(A.Base[1])

\* Bitwise exclusive or of two naturals.
RECURSIVE Xor(_, _)
Xor(a, b) ==
    IF a = 0 THEN b
    ELSE IF b = 0 THEN a
    ELSE (((a % 2) + (b % 2)) % 2) + (2 * Xor(a \div 2, b \div 2))

\* x << k on size_t.  The handles of the model are small enough that no bit
\* is shifted out of 64 bits.
Shl(x, k) == x * (2 ^ k)

\* Access::hash.  std::hash of a pointer and of an enum are the identity on
\* the address and on the enumerator's value (libstdc++, libc++).
RECURSIVE hash(_)
RECURSIVE hashAccessors(_, _, _)
hashAccessors(Accessors, i, h) ==
    IF i >= Len(Accessors) THEN h
    ELSE hashAccessors(Accessors, i + 1, Xor(h, Shl(hash(Accessors[i + 1]), i + 2)))
hash(A) ==
    IF isScalar(A) THEN A.Value
    ELSE LET h1 == AccessTypeValue(A.Type)
             h2 == hash(A.Base[1])
         IN  hashAccessors(A.Accessors, 0, Xor(h1, Shl(h2, 1)))

\* The comparison a correct operator== makes: the accessors are compared too.
RECURSIVE AccessEqWithAccessors(_, _)
AccessEqWithAccessors(l, r) ==
    IF isScalar(l) /\ isScalar(r) THEN l.Value = r.Value
    ELSE IF ~isScalar(l) /\ ~isScalar(r)
         THEN /\ l.Type = r.Type
              /\ AccessEqWithAccessors(l.Base[1], r.Base[1])
              /\ Len(l.Accessors) = Len(r.Accessors)
              /\ \A i \in 1..Len(l.Accessors) :
                    AccessEqWithAccessors(l.Accessors[i], r.Accessors[i])
         ELSE FALSE

\* friend bool operator==(const Access &lhs, const Access &rhs)
RECURSIVE AccessEq(_, _)
AccessEq(l, r) ==
    IF isScalar(l) /\ isScalar(r) THEN l.Value = r.Value
    ELSE IF ~isScalar(l) /\ ~isScalar(r)
         THEN l.Type = r.Type /\ AccessEq(l.Base[1], r.Base[1])
         ELSE FALSE

\* std::unordered_set<Access, AccessHasher>::insert.  The node stores its hash
\* code; an element is found (and the insertion dropped) when a stored
\* element has the same hash code and compares equal with operator==.
SetInsert(S, A) ==
    IF \E e \in S : hash(e) = hash(A) /\ AccessEq(e, A) THEN S ELSE S \cup {A}

(***************************************************************************)
(* The Accesses of the harness: every Access over NumValues handles with   *)
(* at most MaxAccessors accessors (scalars) and a base nested MaxDepth     *)
(* deep.                                                                   *)
(***************************************************************************)
Scalars == {makeScalar(v) : v \in 1..NumValues}

AccessorSeqs == UNION {[1..n -> Scalars] : n \in 0..MaxAccessors}

RECURSIVE AccessesOfDepth(_)
AccessesOfDepth(d) ==
    IF d = 0 THEN Scalars
    ELSE LET B == AccessesOfDepth(d - 1)
         IN  B \cup {makeStructural(b, f) : b \in B, f \in Scalars}
               \cup {makeArrayLike(b, ix) : b \in B, ix \in AccessorSeqs}

AccessUniverse == AccessesOfDepth(MaxDepth)

NoCmp == [eq |-> FALSE, hl |-> 0, hr |-> 0, set |-> {}]

\* The harness compares lhs and rhs, hashes both and inserts both into an
\* empty unordered_set<Access, AccessHasher> (a statement's In).
Compare ==
    /\ pc = "access"
    /\ pc' = "compared"
    /\ cmp' = [eq  |-> AccessEq(lhs, rhs),
               hl  |-> hash(lhs),
               hr  |-> hash(rhs),
               set |-> SetInsert(SetInsert({}, lhs), rhs)]
    /\ UNCHANGED <<M, repoVars, passVars, lhs, rhs, calls, toolVars, rtVars>>

EmptyMap == <<>>

\* Before any pass ran: no artifact, nothing injected, the driver has not
\* returned (exit = <<>>).
NotRun == [static |-> "", dynamic |-> FALSE, stale |-> FALSE, bitcode |-> FALSE,
           exit |-> <<>>]

\* The passes have not run and the traced program has not started.
\* runtime.c compiled with neither NO_HEADER nor NO_DATA defined.
DefaultBuild == [NO_HEADER |-> FALSE, NO_DATA |-> FALSE]

Untouched ==
    /\ artifact = <<>> /\ Injected = EmptyMap /\ tool = NotRun
    /\ aardwolf_fd = <<>> /\ disk = <<>> /\ stream = <<>> /\ trace = <<>>
    /\ build = DefaultBuild

InitAccess ==
    /\ pc = "access"
    /\ lhs \in AccessUniverse
    /\ rhs \in AccessUniverse
    /\ cmp = NoCmp
    /\ M = <<>>
    /\ InstrStmtMap = EmptyMap /\ FuncInstrsMap = EmptyMap /\ InstrSucc = EmptyMap
    /\ StmtsIdMap = EmptyMap /\ ValuesIdMap = EmptyMap /\ FilesIdMap = EmptyMap
    /\ loop = [f |-> 1, b |-> 1, i |-> 1] /\ First = NullPtr /\ Prev = NullPtr
    /\ BBBounds = EmptyMap /\ BBPred = <<>>
    /\ calls = <<>>
    /\ Untouched

NextAccess == Compare

SpecAccess == InitAccess /\ [][NextAccess]_vars

(***************************************************************************)
(* The IR.  A value is [kind, ops, flag, succs]: ops are its operands      *)
(* (handles), succs the successor blocks of a terminator, and flag is      *)
(*   global: isConstant()          gep:  getSourceElementType()->isStructTy *)
(*   load:   getType()->isPointerTy()   call, invoke: getType()->isVoidTy() *)
(*   br:     isConditional()       constexpr: isGEPWithNoNotionalOverIndexing *)
(* The kinds: alloca, global, const (a ConstantInt), arg (an Argument),    *)
(* load, gep, constexpr, binop, phi, call, intrinsic (a call of a          *)
(* non-debug intrinsic such as llvm.memset), dbg (a DbgInfoIntrinsic),     *)
(* invoke, store, ret, br, switch.                                         *)
(***************************************************************************)
V(kind, ops, flag) == [kind |-> kind, ops |-> ops, flag |-> flag, succs |-> <<>>]

T(kind, ops, flag, succs) == [kind |-> kind, ops |-> ops, flag |-> flag, succs |-> succs]

\* The values the instructions of a module operate on; the handle is the
\* index.  They are the operand graphs of the frontend's tests (arrays.c,
\* structures.c, functions.c, loops.c) and a loop-carried phi.
Pool == <<
    V("alloca", <<>>, FALSE),          \*  1  int a[3]
    V("alloca", <<>>, FALSE),          \*  2  int i
    V("alloca", <<>>, FALSE),          \*  3  struct foo *p
    V("global", <<>>, FALSE),          \*  4  int g
    V("global", <<>>, TRUE),           \*  5  const int cg
    V("const", <<>>, FALSE),           \*  6  a constant integer
    V("arg", <<>>, FALSE),             \*  7  a formal argument
    V("load", <<2>>, FALSE),           \*  8  i
    V("load", <<3>>, TRUE),            \*  9  p (a pointer)
    V("gep", <<1, 6, 8>>, FALSE),      \* 10  &a[i]
    V("gep", <<9, 6, 6>>, TRUE),       \* 11  &p->bar
    V("binop", <<8, 6>>, FALSE),       \* 12  i + 1
    V("gep", <<1, 6, 6>>, FALSE),      \* 13  &a[1]
    V("constexpr", <<4, 6, 6>>, TRUE), \* 14  &g[1] as a constant expression
    V("load", <<10>>, FALSE),          \* 15  a[i]
    V("call", <<8>>, FALSE),           \* 16  f(i)
    V("gep", <<1, 6, 12>>, FALSE),     \* 17  &a[i + 1]
    V("load", <<17>>, FALSE),          \* 18  a[i + 1]
    V("load", <<4>>, FALSE),           \* 19  g
    V("gep", <<1, 6, 19>>, FALSE),     \* 20  &a[g]
    V("phi", <<6, 22>>, FALSE),        \* 21  k = phi [1, entry], [k + 1, loop]
    V("binop", <<21, 6>>, FALSE),      \* 22  k + 1
    V("binop", <<8, 19>>, FALSE),      \* 23  i + g
    V("gep", <<1, 6, 23>>, FALSE),     \* 24  &a[i + g]
    V("load", <<11>>, FALSE),          \* 25  p->bar
    V("call", <<16>>, FALSE)           \* 26  f(f(i))
>>

\* The value behind a handle: a value of the pool or an instruction of M.
Val(h) == M.val[h]

InstructionKinds == {"alloca", "load", "gep", "binop", "phi", "call", "intrinsic",
                     "dbg", "invoke", "store", "ret", "br", "switch"}

\* llvm::isa<llvm::Instruction>, GlobalVariable, ConstantExpr, Constant, CallInst
isaInstruction(h) == Val(h).kind \in InstructionKinds
isaGlobalVariable(h) == Val(h).kind = "global"
isaConstantExpr(h) == Val(h).kind = "constexpr"
isaConstant(h) == Val(h).kind \in {"const", "global", "constexpr"}
isaCallInst(h) == Val(h).kind \in {"call", "intrinsic", "dbg"}

\* llvm::dyn_cast<llvm::User>: an Argument is a Value but no User.
dynCastUser(h) == IF h # NullPtr /\ Val(h).kind # "arg" THEN h ELSE NullPtr

(***************************************************************************)
(* Debug locations.  A DebugLoc is [has, scope, line, col, dir, name]:     *)
(* has = the instruction carries one, scope = its scope is not null.       *)
(***************************************************************************)
DLoc(has, scope, line, col, dir, name) ==
    [has |-> has, scope |-> scope, line |-> line, col |-> col, dir |-> dir, name |-> name]

NoLoc == DLoc(FALSE, FALSE, 0, 0, "", "")
NullScopeLoc == DLoc(TRUE, FALSE, 3, 5, "", "")
LocA == DLoc(TRUE, TRUE, 3, 5, "/src", "a.c")
LocB == DLoc(TRUE, TRUE, 7, 1, "", "b.h")
LocLineZero == DLoc(TRUE, TRUE, 0, 0, "/src", "a.c")
LocNoFile == DLoc(TRUE, TRUE, 4, 2, "", "")

\* The first debug-declare of Alloca whose location has a scope
\* (the loop over llvm::FindDbgAddrUses).
RECURSIVE firstScoped(_)
firstScoped(Dbgs) ==
    IF Dbgs = <<>> THEN <<>>
    ELSE IF Head(Dbgs).scope THEN <<Head(Dbgs)>>
    ELSE firstScoped(Tail(Dbgs))

\* aardwolf::getInstrLoc: <<the location>>, or <<>> for UnknownLocation thrown.
getInstrLoc(I) ==
    LET Loc == M.dloc[I]
    IN  IF Loc.has
        THEN IF Loc.scope THEN <<Loc>> ELSE <<>>
        ELSE IF Val(I).kind = "store" /\ Val(Val(I).ops[1]).kind = "arg"
             THEN firstScoped(M.dbg[Val(I).ops[2]])
             ELSE <<>>

\* aardwolf::getDebugLocFile
getDebugLocFile(Loc) ==
    IF Loc.dir = "" THEN Loc.name ELSE Loc.dir \o "/" \o Loc.name

\* aardwolf::getFileUniqueId (unix): st_ino, or 0 when stat fails (M.ino
\* holds -1 for a path stat cannot resolve).
getFileUniqueId(File) == IF M.ino[File] >= 0 THEN M.ino[File] ELSE 0

(***************************************************************************)
(* Access resolution and the backward use walk (StatementDetection.cpp).   *)
(* findInputs has no visited set, so its loop need not terminate: every    *)
(* operator carries the number n of queue pops still allowed and answers   *)
(* ok = FALSE when the walk is still running after MaxWalk pops.           *)
(***************************************************************************)
MaxWalk == 14

Resolved(acc) == [ok |-> TRUE, acc |-> acc]
Unfinished == [ok |-> FALSE, acc |-> <<>>, set |-> {}, vec |-> <<>>]

\* The order in which a range-for visits an unordered_set (unspecified):
\* some fixed order of its elements.
SetToVec(S) ==
    CHOOSE vec \in [1..Cardinality(S) -> S] : \A e \in S : \E k \in DOMAIN vec : vec[k] = e

\* The operands findInputs pushes for a user that is neither resolved nor a store.
pushedOperands(QU) ==
    SelectSeq(Val(QU).ops,
              LAMBDA In : /\ dynCastUser(In) # NullPtr
                          /\ \/ isaInstruction(In)
                             \/ isaGlobalVariable(In)
                             \/ isaConstantExpr(In))

\* The mutant of pushedStoreOperand that walks the destination as well.
pushedBothOperands(SI) ==
    SelectSeq(Val(SI).ops, LAMBDA Op : dynCastUser(Op) # NullPtr)

\* The operand findInputs pushes for a store: the stored value, if a User.
pushedStoreOperand(SI) ==
    IF dynCastUser(Val(SI).ops[1]) # NullPtr THEN <<Val(SI).ops[1]>> ELSE <<>>

RECURSIVE getValueAccess(_, _)
RECURSIVE findCompositeBase(_, _)
RECURSIVE findCompositeAccessors(_, _, _)
RECURSIVE bfsInputs(_, _, _, _)
RECURSIVE visitUser(_, _, _, _, _)

\* findInputs: one iteration of the while loop, for the popped user QU and
\* the result Found of getValueAccess(QU).
\* The mutant of visitUser that walks on behind a user that resolves.
visitUserDescending(Q, Result, I, n, Found) ==
    IF ~Found.ok THEN Unfinished
    ELSE IF Head(Q) # I /\ Found.acc # <<>>
         THEN bfsInputs(Tail(Q) \o pushedOperands(Head(Q)),
                        SetInsert(Result, Found.acc[1]), I, n - 1)
    ELSE IF Val(Head(Q)).kind = "store"
         THEN bfsInputs(Tail(Q) \o pushedStoreOperand(Head(Q)), Result, I, n - 1)
    ELSE bfsInputs(Tail(Q) \o pushedOperands(Head(Q)), Result, I, n - 1)

visitUser(Q, Result, I, n, Found) ==
    IF ~Found.ok THEN Unfinished
    ELSE IF Head(Q) # I /\ Found.acc # <<>>
         THEN bfsInputs(Tail(Q), SetInsert(Result, Found.acc[1]), I, n - 1)
    ELSE IF Val(Head(Q)).kind = "store"
         THEN bfsInputs(Tail(Q) \o pushedStoreOperand(Head(Q)), Result, I, n - 1)
    ELSE bfsInputs(Tail(Q) \o pushedOperands(Head(Q)), Result, I, n - 1)

\* findInputs: the while loop over the queue Q.
bfsInputs(Q, Result, I, n) ==
    IF Q = <<>> THEN [ok |-> TRUE, set |-> Result]
    ELSE IF n = 0 THEN Unfinished
    ELSE visitUser(Q, Result, I, n, getValueAccess(Head(Q), n - 1))

findInputs(I, n) == bfsInputs(<<I>>, {}, I, n)

\* findCompositeBase: the base is the only input of B, if B has just one.
singleInput(Inputs) ==
    IF ~Inputs.ok THEN Unfinished
    ELSE IF Cardinality(Inputs.set) = 1
         THEN Resolved(<<CHOOSE a \in Inputs.set : TRUE>>)
         ELSE Resolved(<<>>)

\* findCompositeBase for the pointer operand B of the GEP.
baseOf(B, n) ==
    IF Val(B).kind = "gep" THEN getValueAccess(B, n)
    ELSE IF isaInstruction(B)
         THEN IF Val(B).kind = "alloca" THEN Resolved(<<makeScalar(B)>>)
              ELSE singleInput(findInputs(B, n))
    ELSE IF isaGlobalVariable(B) THEN Resolved(<<makeScalar(B)>>)
    ELSE Resolved(<<>>)

findCompositeBase(GEPI, n) == baseOf(Val(GEPI).ops[1], n)

\* The last index is a User in every module of the model (dyn_cast<Constant>
\* of a null AU is not reached).
\* findCompositeAccessors: every input of the index is an accessor.
inputsAsAccessors(Inputs) ==
    IF ~Inputs.ok THEN Unfinished ELSE [ok |-> TRUE, vec |-> SetToVec(Inputs.set)]

\* findCompositeAccessors for the last index AU of the GEP and the result A
\* of getValueAccess(AU).
accessorsOf(AU, A, isStruct, n) ==
    IF ~A.ok THEN Unfinished
    ELSE IF A.acc = <<>>
         THEN IF isaConstant(AU)
              THEN [ok |-> TRUE, vec |-> IF isStruct THEN <<makeScalar(AU)>> ELSE <<>>]
              ELSE IF isaInstruction(AU)
                   THEN inputsAsAccessors(findInputs(AU, n))
                   ELSE [ok |-> TRUE, vec |-> <<>>]
         ELSE [ok |-> TRUE, vec |-> <<A.acc[1]>>]

lastIndex(GEPI) == dynCastUser(Val(GEPI).ops[Len(Val(GEPI).ops)])

findCompositeAccessors(GEPI, isStruct, n) ==
    accessorsOf(lastIndex(GEPI), getValueAccess(lastIndex(GEPI), n), isStruct, n)

\* getValueAccess of a GEP with base B and accessors A.
compositeAccess(isStruct, B, A) ==
    IF ~B.ok \/ ~A.ok THEN Unfinished
    ELSE IF B.acc = <<>> THEN Resolved(<<>>)
    ELSE IF isStruct
         THEN IF A.vec = <<>> THEN Resolved(<<>>)
              ELSE Resolved(<<makeStructural(B.acc[1], A.vec[1])>>)
         ELSE Resolved(<<makeArrayLike(B.acc[1], A.vec)>>)

\* getValueAccess of a constant GEP expression or of a load of pointer
\* type, with B the Access of its pointer operand.
pointerAccess(B) ==
    IF ~B.ok THEN Unfinished
    ELSE IF B.acc = <<>> THEN Resolved(<<>>)
    ELSE Resolved(<<makeArrayLike(B.acc[1], <<>>)>>)

getValueAccess(U, n) ==
    IF U = NullPtr THEN Resolved(<<>>)
    ELSE IF Val(U).kind = "alloca" THEN Resolved(<<makeScalar(U)>>)
    ELSE IF isaCallInst(U) THEN Resolved(<<makeScalar(U)>>)
    ELSE IF Val(U).kind = "global"
         THEN IF Val(U).flag THEN Resolved(<<>>) ELSE Resolved(<<makeScalar(U)>>)
    ELSE IF Val(U).kind = "gep"
         THEN compositeAccess(Val(U).flag, findCompositeBase(U, n),
                              findCompositeAccessors(U, Val(U).flag, n))
    ELSE IF Val(U).kind = "constexpr"
         THEN IF Val(U).flag
              THEN pointerAccess(getValueAccess(dynCastUser(Val(U).ops[1]), n))
              ELSE Resolved(<<>>)
    ELSE IF Val(U).kind = "load"
         THEN IF Val(U).flag
              THEN pointerAccess(getValueAccess(dynCastUser(Val(U).ops[1]), n))
              ELSE Resolved(<<>>)
    ELSE Resolved(<<>>)

(***************************************************************************)
(* Statements (Statement.h) and runOnInstr.                                *)
(***************************************************************************)
LineCol(Line, Col) == [Line |-> Line, Col |-> Col]

Location(File, Begin, End) == [File |-> File, Begin |-> Begin, End |-> End]

\* Statement::Statement()
EmptyStatement ==
    [Instr |-> NullPtr, In |-> {}, Out |-> <<>>,
     Loc |-> Location("", LineCol(0, 0), LineCol(0, 0))]

\* getStmtLoc, for an instruction getInstrLoc resolves.
locationOf(InstrLoc) ==
    Location(getDebugLocFile(InstrLoc),
             LineCol(InstrLoc.line, InstrLoc.col),
             LineCol(InstrLoc.line, InstrLoc.col))

getStmtLoc(Instr) == locationOf(getInstrLoc(Instr)[1])

\* The mutant of makesStatement that takes every branch.
makesStatementOfAnyBranch(I) ==
    \/ Val(I).kind \in {"ret", "switch", "invoke", "store", "br"}
    \/ isaCallInst(I) /\ Val(I).kind # "dbg"

\* The kinds runOnInstr turns into a statement: return, conditional branch,
\* switch, invoke, store, and every CallInst that is no DbgInfoIntrinsic.
makesStatement(I) ==
    \/ Val(I).kind \in {"ret", "switch", "invoke", "store"}
    \/ Val(I).kind = "br" /\ Val(I).flag
    \/ isaCallInst(I) /\ Val(I).kind # "dbg"

\* The mutant of outOf that gives every CallInst an Out, void or not.
outOfAnyCall(I) ==
    IF Val(I).kind = "store" THEN getValueAccess(dynCastUser(Val(I).ops[2]), MaxWalk)
    ELSE IF isaCallInst(I) THEN Resolved(<<makeScalar(I)>>)
    ELSE Resolved(<<>>)

\* Result.Out of runOnInstr: the destination of a store, the result of a
\* CallInst that is not void.
outOf(I) ==
    IF Val(I).kind = "store" THEN getValueAccess(dynCastUser(Val(I).ops[2]), MaxWalk)
    ELSE IF isaCallInst(I) /\ ~Val(I).flag THEN Resolved(<<makeScalar(I)>>)
    ELSE Resolved(<<>>)

\* runOnInstr: [status, stmt] with status "ok" (stmt.Instr is null when the
\* instruction is no statement), "throw" (UnknownLocation) or "hang" (a walk that
\* does not return).  findInputs runs first, then getValueAccess of a store's
\* destination, then getStmtLoc.
\* The outcome of runOnInstr with no statement in it.
NoStatement(status) == [status |-> status, stmt |-> EmptyStatement]

\* The mutant of statementOf that adds the indices of Out to In.
statementWithIndices(I, Inputs, Out) ==
    IF ~Inputs.ok THEN NoStatement("hang")
    ELSE IF Val(I).kind = "store" /\ ~Out.ok THEN NoStatement("hang")
    ELSE IF getInstrLoc(I) = <<>> THEN NoStatement("throw")
    ELSE [status |-> "ok",
          stmt |-> [Instr |-> I,
                    In |-> Inputs.set \cup
                           UNION {{Out.acc[j].Accessors[k] : k \in DOMAIN Out.acc[j].Accessors} :
                                     j \in DOMAIN Out.acc},
                    Out |-> Out.acc,
                    Loc |-> getStmtLoc(I)]]

\* runOnInstr for an instruction that makes a statement, with the results
\* Inputs of findInputs and Out of the destination's resolution.
statementOf(I, Inputs, Out) ==
    IF ~Inputs.ok THEN NoStatement("hang")
    ELSE IF Val(I).kind = "store" /\ ~Out.ok THEN NoStatement("hang")
    ELSE IF getInstrLoc(I) = <<>> THEN NoStatement("throw")
    ELSE [status |-> "ok",
          stmt |-> [Instr |-> I, In |-> Inputs.set, Out |-> Out.acc,
                    Loc |-> getStmtLoc(I)]]

runOnInstr(I) ==
    IF ~makesStatement(I) THEN NoStatement("ok")
    ELSE statementOf(I, findInputs(I, MaxWalk), outOf(I))

(***************************************************************************)
(* The statement repository (StatementRepository.cpp).  Its operations are *)
(* operators on the record R of the six maps; each returns the maps after  *)
(* the call (repo) and the value returned (id).                            *)
(***************************************************************************)
Repo == [InstrStmtMap |-> InstrStmtMap, FuncInstrsMap |-> FuncInstrsMap,
         InstrSucc |-> InstrSucc, StmtsIdMap |-> StmtsIdMap,
         ValuesIdMap |-> ValuesIdMap, FilesIdMap |-> FilesIdMap]

\* std::map::insert / unordered_map::insert: an existing key keeps its value.
MapInsert(Map, key, value) == Map @@ (key :> value)

\* Map[key] of a std::map of vectors: a missing key reads as the empty vector.
VecAt(Map, key) == IF key \in DOMAIN Map THEN Map[key] ELSE <<>>

\* Map[key].push_back(value)
PushBack(Map, key, value) ==
    [k \in DOMAIN Map \cup {key} |->
        IF k = key THEN Append(VecAt(Map, key), value) ELSE Map[k]]

\* The mutant of getFileId that does not record the id of a new path.
getFileIdUnrecorded(R, File) ==
    IF File \in DOMAIN R.FilesIdMap
    THEN [repo |-> R, id |-> R.FilesIdMap[File]]
    ELSE [repo |-> R, id |-> getFileUniqueId(File)]

getFileId(R, File) ==
    IF File \in DOMAIN R.FilesIdMap
    THEN [repo |-> R, id |-> R.FilesIdMap[File]]
    ELSE LET Id == getFileUniqueId(File)
         IN  [repo |-> [R EXCEPT !.FilesIdMap = MapInsert(@, File, Id)], id |-> Id]

\* The mutant of getStatementId that allots an id on every call.
\* The mutant of getStatementId that numbers the statements of each file
\* from 1.
getStatementIdPerFile(R, Stmt) ==
    IF Stmt.Instr \in DOMAIN R.StmtsIdMap
    THEN [repo |-> R, id |-> R.StmtsIdMap[Stmt.Instr]]
    ELSE LET File == getFileId(R, getDebugLocFile(getInstrLoc(Stmt.Instr)[1]))
             StmtId == Cardinality({J \in DOMAIN R.StmtsIdMap :
                                       R.StmtsIdMap[J][1] = File.id}) + 1
             Id == <<File.id, StmtId>>
         IN  [repo |-> [File.repo EXCEPT !.StmtsIdMap = MapInsert(@, Stmt.Instr, Id)],
              id |-> Id]

getStatementIdAlwaysNew(R, Stmt) ==
    LET File == getFileId(R, getDebugLocFile(getInstrLoc(Stmt.Instr)[1]))
        Id == <<File.id, Cardinality(DOMAIN R.StmtsIdMap) + 1>>
    IN  [repo |-> [File.repo EXCEPT !.StmtsIdMap =
                      [k \in DOMAIN @ \cup {Stmt.Instr} |-> IF k = Stmt.Instr THEN Id ELSE @[k]]],
         id |-> Id]

getStatementId(R, Stmt) ==
    IF Stmt.Instr \in DOMAIN R.StmtsIdMap
    THEN [repo |-> R, id |-> R.StmtsIdMap[Stmt.Instr]]
    ELSE LET File == getFileId(R, getDebugLocFile(getInstrLoc(Stmt.Instr)[1]))
             StmtId == Cardinality(DOMAIN R.StmtsIdMap) + 1
             Id == <<File.id, StmtId>>
         IN  [repo |-> [File.repo EXCEPT !.StmtsIdMap = MapInsert(@, Stmt.Instr, Id)],
              id |-> Id]

getValueId(R, Value) ==
    IF Value \in DOMAIN R.ValuesIdMap
    THEN [repo |-> R, id |-> R.ValuesIdMap[Value]]
    ELSE LET Id == Cardinality(DOMAIN R.ValuesIdMap) + 1
         IN  [repo |-> [R EXCEPT !.ValuesIdMap = MapInsert(@, Value, Id)], id |-> Id]

\* registerStatement: getValueId of the root of each Access of the vector.
RECURSIVE registerValues(_, _)
registerValues(R, Accesses) ==
    IF Accesses = <<>> THEN R
    ELSE registerValues(getValueId(R, getValueOrBase(Head(Accesses))).repo, Tail(Accesses))

\* The mutant of registerStatement that gives Out no value id.
registerStatementInOnly(R, F, Stmt) ==
    LET R1 == [R EXCEPT !.InstrStmtMap = MapInsert(@, Stmt.Instr, Stmt)]
        R2 == getStatementId(R1, Stmt).repo
        R3 == registerValues(R2, SetToVec(Stmt.In))
    IN  [R3 EXCEPT !.FuncInstrsMap = PushBack(@, F, Stmt.Instr)]

registerStatement(R, F, Stmt) ==
    LET R1 == [R EXCEPT !.InstrStmtMap = MapInsert(@, Stmt.Instr, Stmt)]
        R2 == getStatementId(R1, Stmt).repo
        R3 == registerValues(R2, SetToVec(Stmt.In))
        R4 == registerValues(R3, Stmt.Out)
    IN  [R4 EXCEPT !.FuncInstrsMap = PushBack(@, F, Stmt.Instr)]

addSuccessor(R, Stmt, Succ) == [R EXCEPT !.InstrSucc = PushBack(@, Stmt, Succ)]

\* The six maps after the step are those of R.
SetRepo(R) ==
    /\ InstrStmtMap' = R.InstrStmtMap
    /\ FuncInstrsMap' = R.FuncInstrsMap
    /\ InstrSucc' = R.InstrSucc
    /\ StmtsIdMap' = R.StmtsIdMap
    /\ ValuesIdMap' = R.ValuesIdMap
    /\ FilesIdMap' = R.FilesIdMap

(***************************************************************************)
(* StatementDetectionBase::runBase, one step per loop iteration.           *)
(*   pc = "fn"      at the head of the loop over the functions             *)
(*   pc = "detect"  at the head of the loop over the instructions of block *)
(*                  loop.b of function loop.f                              *)
(*   pc = "chain"   at the head of the second loop over the blocks         *)
(*   pc = "bfs"     at the head of the while loop over BBPred              *)
(*   pc = "done"    returned;  pc = "hung" inside a walk that never ends   *)
(***************************************************************************)
MaxQueue == 6
MaxSucc == 5

curF == M.fns[loop.f]
curBB == curF.bbs[loop.b]
curI == M.body[curBB][loop.i]

\* The terminator of block B and how often block B is one of its successors.
terminator(P) == M.body[P][Len(M.body[P])]
edgesTo(P, B) == Cardinality({k \in DOMAIN Val(terminator(P)).succs :
                                 Val(terminator(P)).succs[k] = B})

\* llvm::pred_begin(B) .. pred_end(B): one entry for each use of B by a
\* terminator, here in the order of the function's blocks.
RECURSIVE predsFrom(_, _)
predsFrom(Blocks, B) ==
    IF Blocks = <<>> THEN <<>>
    ELSE [k \in 1..edgesTo(Head(Blocks), B) |-> Head(Blocks)] \o predsFrom(Tail(Blocks), B)

preds(B) == predsFrom(curF.bbs, B)

\* The mutant of pushPreds that drops an empty predecessor.
pushNoPreds(Q, P) == Q

\* The queue after the predecessors of the empty block P are pushed.
pushPreds(Q, P) == Q \o preds(P)

\* for (auto &F : M): past the last function runBase returns.
Finish ==
    /\ pc = "fn"
    /\ loop.f > Len(M.fns)
    /\ pc' = "done"
    /\ UNCHANGED <<M, repoVars, passVars, accVars, calls, toolVars, rtVars>>

\* if (F.isDeclaration()) continue;
SkipDeclaration ==
    /\ pc = "fn"
    /\ loop.f <= Len(M.fns)
    /\ curF.decl
    /\ loop' = [loop EXCEPT !.f = @ + 1]
    /\ UNCHANGED <<M, repoVars, pc, First, Prev, BBBounds, BBPred, accVars, calls, toolVars, rtVars>>

EnterFunction ==
    /\ pc = "fn"
    /\ loop.f <= Len(M.fns)
    /\ ~curF.decl
    /\ pc' = "detect"
    /\ loop' = [loop EXCEPT !.b = 1, !.i = 1]
    /\ First' = NullPtr
    /\ Prev' = NullPtr
    /\ UNCHANGED <<M, repoVars, BBBounds, BBPred, accVars, calls, toolVars, rtVars>>

\* The body of for (auto &I : BB).
DetectInstr ==
    /\ pc = "detect"
    /\ loop.i <= Len(M.body[curBB])
    /\ \E Got \in {runOnInstr(curI)} : \E Stmt \in {Got.stmt} :
           \/ /\ Got.status = "hang"
              /\ pc' = "hung"
              /\ UNCHANGED <<repoVars, loop, First, Prev>>
           \/ /\ Got.status = "throw"
              /\ loop' = [loop EXCEPT !.i = @ + 1]
              /\ UNCHANGED <<repoVars, pc, First, Prev>>
           \/ /\ Got.status = "ok"
              /\ Stmt.Instr = NullPtr
              /\ loop' = [loop EXCEPT !.i = @ + 1]
              /\ UNCHANGED <<repoVars, pc, First, Prev>>
           \/ /\ Got.status = "ok"
              /\ Stmt.Instr # NullPtr
              /\ First = NullPtr
              /\ SetRepo(registerStatement(Repo, loop.f, Stmt))
              /\ First' = Stmt.Instr
              /\ Prev' = Stmt.Instr
              /\ loop' = [loop EXCEPT !.i = @ + 1]
              /\ pc' = pc
           \/ /\ Got.status = "ok"
              /\ Stmt.Instr # NullPtr
              /\ First # NullPtr
              /\ SetRepo(addSuccessor(registerStatement(Repo, loop.f, Stmt), Prev, Stmt.Instr))
              /\ Prev' = Stmt.Instr
              /\ loop' = [loop EXCEPT !.i = @ + 1]
              /\ UNCHANGED <<pc, First>>
    /\ UNCHANGED <<M, BBBounds, BBPred, accVars, calls, toolVars, rtVars>>

\* After the last instruction of a block: its bounds, then the next block,
\* or the second loop over the blocks.
EndBlock ==
    /\ pc = "detect"
    /\ loop.i > Len(M.body[curBB])
    /\ BBBounds' = IF Prev # NullPtr
                   THEN [k \in DOMAIN BBBounds \cup {curBB} |->
                            IF k = curBB THEN <<First, Prev>> ELSE BBBounds[k]]
                   ELSE BBBounds
    /\ First' = NullPtr
    /\ Prev' = NullPtr
    /\ IF loop.b < Len(curF.bbs)
       THEN /\ loop' = [loop EXCEPT !.b = @ + 1, !.i = 1]
            /\ pc' = pc
       ELSE /\ loop' = [loop EXCEPT !.b = 1, !.i = 1]
            /\ pc' = "chain"
    /\ UNCHANGED <<M, repoVars, BBPred, accVars, calls, toolVars, rtVars>>

\* The head of the second for (auto &BB : F).
ChainBlock ==
    /\ pc = "chain"
    /\ \/ /\ loop.b > Len(curF.bbs)
          /\ pc' = "fn"
          /\ loop' = [loop EXCEPT !.f = @ + 1]
          /\ UNCHANGED BBPred
       \/ /\ loop.b <= Len(curF.bbs)
          /\ curBB \notin DOMAIN BBBounds
          /\ loop' = [loop EXCEPT !.b = @ + 1]
          /\ UNCHANGED <<pc, BBPred>>
       \/ /\ loop.b <= Len(curF.bbs)
          /\ curBB \in DOMAIN BBBounds
          /\ BBPred' = preds(curBB)
          /\ pc' = "bfs"
          /\ UNCHANGED loop
    /\ UNCHANGED <<M, repoVars, First, Prev, BBBounds, accVars, calls, toolVars, rtVars>>

\* One iteration of while (!BBPred.empty()), or its exit.  The queue of the
\* model holds at most MaxQueue blocks and a successor list at most MaxSucc
\* instructions: a walk that needs more is one that goes round a cycle of
\* empty blocks.
PopPred ==
    /\ pc = "bfs"
    /\ Len(BBPred) <= MaxQueue
    /\ \/ /\ BBPred = <<>>
          /\ pc' = "chain"
          /\ loop' = [loop EXCEPT !.b = @ + 1]
          /\ UNCHANGED <<repoVars, BBPred>>
       \/ /\ BBPred # <<>>
          /\ Head(BBPred) \notin DOMAIN BBBounds
          /\ BBPred' = pushPreds(Tail(BBPred), Head(BBPred))
          /\ UNCHANGED <<repoVars, pc, loop>>
       \/ /\ BBPred # <<>>
          /\ Head(BBPred) \in DOMAIN BBBounds
          /\ Len(VecAt(InstrSucc, BBBounds[Head(BBPred)][2])) < MaxSucc
          /\ SetRepo(addSuccessor(Repo, BBBounds[Head(BBPred)][2], BBBounds[curBB][1]))
          /\ BBPred' = Tail(BBPred)
          /\ UNCHANGED <<pc, loop>>
    /\ UNCHANGED <<M, First, Prev, BBBounds, accVars, calls, toolVars, rtVars>>

(***************************************************************************)
(* The modules of the model.  A module is                                  *)
(*   fns   the functions in order: [decl, bbs] (bbs: the blocks in order)  *)
(*   body  block -> its instructions in order                              *)
(*   val   instruction -> its value       dloc  instruction -> DebugLoc    *)
(*   dbg   value -> the locations of its debug-declare uses                *)
(*   ino   path -> st_ino, or -1 when stat fails                           *)
(***************************************************************************)
NumBlocks == 3
MaxCond == 1

Inodes == [f \in {"/src/a.c", "b.h", ""} |->
              IF f = "/src/a.c" THEN 11 ELSE IF f = "b.h" THEN 12 ELSE -1]

Declaration == [decl |-> TRUE, bbs |-> <<>>]

NoDeclares == [h \in DOMAIN Pool |-> <<>>]
Declares == [h \in DOMAIN Pool |->
                IF Pool[h].kind = "alloca" THEN <<NullScopeLoc, LocB>> ELSE <<>>]

\* One instruction of every shape: the stores of every stored value into
\* every destination, and the other kinds over some operands.
StoreValues == {6, 7, 8, 12, 15, 16, 18, 19, 22, 25}
StoreDests == {2, 4, 7, 9, 10, 11, 13, 14, 17, 20, 24}

ShapeInstrs ==
    {T("store", <<v, d>>, FALSE, <<>>) : v \in StoreValues, d \in StoreDests}
    \cup {T("ret", ops, FALSE, <<>>) : ops \in {<<>>, <<6>>, <<7>>, <<8>>, <<15>>, <<21>>}}
    \cup {T("br", <<c>>, TRUE, <<2, 2>>) : c \in {12, 16, 25}}
    \cup {T("br", <<>>, FALSE, <<2>>)}
    \cup {T("switch", <<8>>, FALSE, <<2, 2>>)}
    \cup {T("invoke", <<8>>, void, <<2, 2>>) : void \in BOOLEAN}
    \cup {T("call", <<a>>, void, <<>>) : a \in {7, 8, 16, 10}, void \in BOOLEAN}
    \cup {T("intrinsic", <<1, 6>>, TRUE, <<>>), T("dbg", <<2>>, TRUE, <<>>),
          T("load", <<2>>, FALSE, <<>>), T("binop", <<8, 6>>, FALSE, <<>>),
          T("alloca", <<>>, FALSE, <<>>), T("gep", <<1, 6, 8>>, FALSE, <<>>)}

LocOptions == {NoLoc, NullScopeLoc, LocA, LocB, LocLineZero, LocNoFile}

isTerminator(v) == v.kind \in {"ret", "br", "switch", "invoke"}

\* A function of two blocks: instruction 101 (of the given shape and
\* location), a branch 102 to the second block unless 101 is a terminator,
\* and the return 103.
ShapeModule(I, Loc, Dbg) ==
    [fns  |-> <<Declaration, [decl |-> FALSE, bbs |-> <<1, 2>>]>>,
     body |-> [b \in {1, 2} |->
                  IF b = 2 THEN <<103>>
                  ELSE IF isTerminator(I) THEN <<101>> ELSE <<101, 102>>],
     val  |-> Pool @@ [h \in {101, 102, 103} |->
                  IF h = 101 THEN I
                  ELSE IF h = 102 THEN T("br", <<>>, FALSE, <<2>>)
                  ELSE T("ret", <<8>>, FALSE, <<>>)],
     dloc |-> [h \in {101, 102, 103} |-> IF h = 101 THEN Loc ELSE LocA],
     dbg  |-> Dbg,
     ino  |-> Inodes]

ShapeModules ==
    {ShapeModule(I, Loc, Dbg) :
        I \in ShapeInstrs, Loc \in LocOptions, Dbg \in {NoDeclares, Declares}}

\* The control-flow graphs: every block either holds a located store and a
\* located terminator or nothing located, and ends in a return, a branch or
\* a conditional branch to blocks other than the entry block.
TermShapes ==
    {[k |-> "ret", succs |-> <<>>]}
    \cup {[k |-> "br", succs |-> <<t>>] : t \in 2..NumBlocks}
    \cup {[k |-> "cond", succs |-> <<t1, t2>>] : t1 \in 2..NumBlocks, t2 \in 2..NumBlocks}

Layouts ==
    {L \in [1..NumBlocks -> [e : BOOLEAN, t : TermShapes]] :
        /\ Cardinality({b \in 1..NumBlocks : L[b].t.k = "cond"}) <= MaxCond
        /\ \A b \in 1..NumBlocks :
              L[b].t.k = "cond" => L[b].t.succs[1] <= L[b].t.succs[2]}

storeOf(b) == 100 + 10 * b + 1
termOf(b) == 100 + 10 * b + 2

CfgModule(L) ==
    LET Instrs == {storeOf(b) : b \in 1..NumBlocks} \cup {termOf(b) : b \in 1..NumBlocks}
        blockOf(h) == (h - 100) \div 10
    IN  [fns  |-> <<Declaration, [decl |-> FALSE, bbs |-> [b \in 1..NumBlocks |-> b]]>>,
         body |-> [b \in 1..NumBlocks |->
                      IF L[b].e THEN <<termOf(b)>> ELSE <<storeOf(b), termOf(b)>>],
         val  |-> Pool @@ [h \in Instrs |->
                      IF h = storeOf(blockOf(h)) THEN T("store", <<6, 2>>, FALSE, <<>>)
                      ELSE LET t == L[blockOf(h)].t
                           IN  IF t.k = "ret" THEN T("ret", <<>>, FALSE, <<>>)
                               ELSE IF t.k = "br" THEN T("br", <<>>, FALSE, t.succs)
                               ELSE T("br", <<12>>, TRUE, t.succs)],
         dloc |-> [h \in Instrs |-> IF L[blockOf(h)].e THEN NoLoc ELSE LocA],
         dbg  |-> NoDeclares,
         ino  |-> Inodes]

CfgModules == {CfgModule(L) : L \in Layouts}

EmptyRepo ==
    /\ InstrStmtMap = EmptyMap /\ FuncInstrsMap = EmptyMap /\ InstrSucc = EmptyMap
    /\ StmtsIdMap = EmptyMap /\ ValuesIdMap = EmptyMap /\ FilesIdMap = EmptyMap

Init ==
    /\ M \in ShapeModules \cup CfgModules
    /\ EmptyRepo
    /\ pc = "fn"
    /\ loop = [f |-> 1, b |-> 1, i |-> 1]
    /\ First = NullPtr /\ Prev = NullPtr
    /\ BBBounds = EmptyMap /\ BBPred = <<>>
    /\ lhs = <<>> /\ rhs = <<>> /\ cmp = NoCmp
    /\ calls = <<>>
    /\ Untouched

Next ==
    \/ Finish
    \/ SkipDeclaration
    \/ EnterFunction
    \/ DetectInstr
    \/ EndBlock
    \/ ChainBlock
    \/ PopPred

Spec == Init /\ [][Next]_vars

(***************************************************************************)
(* The static serializer (StaticData.cpp).  A byte is a number of 0..255,  *)
(* a file a sequence of bytes.  Every export function takes and returns    *)
(* W = [repo, bytes]: the repository (getValueId, getFileId and            *)
(* InstrSucc[...] may add to it) and the bytes written to the stream.      *)
(***************************************************************************)
TOKEN_STATEMENT == 255
TOKEN_FUNCTION == 254
TOKEN_FILENAMES == 253
TOKEN_VALUE_SCALAR == 224
TOKEN_VALUE_STRUCTURAL == 225
TOKEN_VALUE_ARRAY_LIKE == 226
META_ARG == 97
META_RET == 98
META_CALL == 100

\* The n low bytes of v, least significant first (Stream.write of the
\* object representation on a little-endian host).
RECURSIVE LittleEndian(_, _)
LittleEndian(v, n) ==
    IF n = 0 THEN <<>> ELSE <<v % 256>> \o LittleEndian(v \div 256, n - 1)

\* writeBytes(uint8_t), writeBytes(uint32_t), writeBytes(uint64_t)
writeBytes8(v) == LittleEndian(v, 1)
writeBytes32(v) == LittleEndian(v, 4)
writeBytes64(v) == LittleEndian(v, 8)

\* The characters of the strings of the model.
Chars == [s \in {"", "/src/a.c", "b.h", "f1", "f2", "AARD/S1", "AARD/D", "t1"} |->
             IF s = "/src/a.c" THEN <<47, 115, 114, 99, 47, 97, 46, 99>>
             ELSE IF s = "b.h" THEN <<98, 46, 104>>
             ELSE IF s = "f1" THEN <<102, 49>>
             ELSE IF s = "f2" THEN <<102, 50>>
             ELSE IF s = "AARD/S1" THEN <<65, 65, 82, 68, 47, 83, 49>>
             ELSE IF s = "AARD/D" THEN <<65, 65, 82, 68, 47, 68>>
             ELSE IF s = "t1" THEN <<116, 49>>
             ELSE <<>>]

\* writeBytes(std::string): the characters and a terminating NUL.
writeString(s) == Chars[s] \o <<0>>

\* writeBytes of the pair getStatementId returns: the file id, then the
\* statement id, each as a u64.
writeBytesPair(Id) == writeBytes64(Id[1]) \o writeBytes64(Id[2])

\* llvm::Function::getName of the F-th function of the module.
getName(F) == IF F = 1 THEN "f1" ELSE "f2"

Written(R, bytes) == [repo |-> R, bytes |-> bytes]

\* W after the bytes are written.
put(W, bytes) == Written(W.repo, W.bytes \o bytes)

\* W after the id G.id of a value, of a file, of a statement is written,
\* G being what getValueId, getFileId, getStatementId returned.
putValueId(W, G) == Written(G.repo, W.bytes \o writeBytes64(G.id))
putFileId(W, G) == Written(G.repo, W.bytes \o writeBytes64(G.id))
putStatementId(W, G) == Written(G.repo, W.bytes \o writeBytesPair(G.id))

RECURSIVE exportAccess(_, _)
RECURSIVE exportAccesses(_, _)

\* for (auto Var : Access->getAccessors()) exportAccess(Repo, Stream, &Var);
exportAccesses(W, Accesses) ==
    IF Accesses = <<>> THEN W
    ELSE exportAccesses(exportAccess(W, Head(Accesses)), Tail(Accesses))

\* The mutant of exportAccess that writes the field of a Structural access
\* before its base.
exportAccessFieldFirst(W, A) ==
    IF isScalar(A)
    THEN putValueId(put(W, writeBytes8(TOKEN_VALUE_SCALAR)), getValueId(W.repo, A.Value))
    ELSE IF A.Type = "Structural"
         THEN exportAccess(exportAccess(put(W, writeBytes8(TOKEN_VALUE_STRUCTURAL)),
                                        A.Accessors[1]),
                           A.Base[1])
         ELSE exportAccesses(put(exportAccess(put(W, writeBytes8(TOKEN_VALUE_ARRAY_LIKE)),
                                              A.Base[1]),
                                 writeBytes32(Len(A.Accessors))),
                             A.Accessors)

exportAccess(W, A) ==
    IF isScalar(A)
    THEN putValueId(put(W, writeBytes8(TOKEN_VALUE_SCALAR)), getValueId(W.repo, A.Value))
    ELSE IF A.Type = "Structural"
         THEN exportAccess(exportAccess(put(W, writeBytes8(TOKEN_VALUE_STRUCTURAL)),
                                        A.Base[1]),
                           A.Accessors[1])
         ELSE exportAccesses(put(exportAccess(put(W, writeBytes8(TOKEN_VALUE_ARRAY_LIKE)),
                                              A.Base[1]),
                                 writeBytes32(Len(A.Accessors))),
                             A.Accessors)

\* Statement::isArg, isRet (Statement.cpp) and isCall.
isArg(Stmt) ==
    /\ Len(Val(Stmt.Instr).ops) > 0
    /\ Val(Val(Stmt.Instr).ops[1]).kind = "arg"

isRet(Stmt) == Val(Stmt.Instr).kind = "ret"

isCall(Stmt) == isaCallInst(Stmt.Instr)

\* metadata |= Flag on a uint8_t, the flags being 0x61, 0x62, 0x64: the
\* bits 0x60 are common to the three, the bits 1, 2, 4 tell them apart.
getMetadata(Stmt) ==
    (IF isArg(Stmt) \/ isRet(Stmt) \/ isCall(Stmt) THEN 96 ELSE 0)
    + (IF isArg(Stmt) THEN 1 ELSE 0)
    + (IF isRet(Stmt) THEN 2 ELSE 0)
    + (IF isCall(Stmt) THEN 4 ELSE 0)

\* for (auto Succ : Successors) writeBytes(Stream, Repo.getStatementId(*Succ));
\* the first half of the vector, then the others (a list of hundreds of
\* successors is then no deeper than a few calls; the stream is never
\* empty here, the token of the statement is in it).
RECURSIVE exportSuccessors(_, _)
exportOthers(W, Successors) ==
    IF W.bytes = <<>> THEN W
    ELSE exportSuccessors(W, SubSeq(Successors, (Len(Successors) \div 2) + 1, Len(Successors)))
exportSuccessors(W, Successors) ==
    IF Successors = <<>> THEN W
    ELSE IF Len(Successors) = 1
         THEN putStatementId(W, getStatementId(W.repo, Successors[1]))
    ELSE exportOthers(exportSuccessors(W, SubSeq(Successors, 1, Len(Successors) \div 2)),
                      Successors)

\* exportStatement, part by part: identity, successors, def, uses,
\* location, metadata.
exportIdentity(W, Stmt) ==
    putStatementId(put(W, writeBytes8(TOKEN_STATEMENT)), getStatementId(W.repo, Stmt))

exportSuccessorList(W, Successors) ==
    exportSuccessors(put(W, writeBytes8(Len(Successors))), Successors)

exportDef(W, Stmt) ==
    IF Stmt.Out # <<>>
    THEN exportAccess(put(W, writeBytes8(1)), Stmt.Out[1])
    ELSE put(W, writeBytes8(0))

exportUses(W, Stmt) ==
    exportAccesses(put(W, writeBytes8(Cardinality(Stmt.In))), SetToVec(Stmt.In))

exportLocation(W, Stmt) ==
    put(putFileId(W, getFileId(W.repo, Stmt.Loc.File)),
        writeBytes32(Stmt.Loc.Begin.Line) \o writeBytes32(Stmt.Loc.Begin.Col)
        \o writeBytes32(Stmt.Loc.End.Line) \o writeBytes32(Stmt.Loc.End.Col))

exportStatement(W, Stmt, Successors) ==
    put(exportLocation(
            exportUses(
                exportDef(
                    exportSuccessorList(exportIdentity(W, Stmt), Successors),
                    Stmt),
                Stmt),
            Stmt),
        writeBytes8(getMetadata(Stmt)))

exportFunctionName(W, F) ==
    put(W, writeBytes8(TOKEN_FUNCTION) \o writeString(getName(F)))

\* The paths in the order of std::map<const std::string, uint64_t>.
PathOrder == <<"", "/src/a.c", "b.h">>

\* for (auto F : Repo.FilesIdMap) { writeBytes(F.second); writeBytes(F.first); }
RECURSIVE exportFiles(_, _)
exportFiles(W, Paths) ==
    IF Paths = <<>> THEN W
    ELSE IF Head(Paths) \in DOMAIN W.repo.FilesIdMap
         THEN exportFiles(put(W, writeBytes64(W.repo.FilesIdMap[Head(Paths)])
                                 \o writeString(Head(Paths))),
                          Tail(Paths))
         ELSE exportFiles(W, Tail(Paths))

exportMetadata(W) ==
    exportFiles(put(W, writeBytes8(TOKEN_FILENAMES)
                       \o writeBytes32(Cardinality(DOMAIN W.repo.FilesIdMap))),
                PathOrder)

\* Repo.InstrSucc[I]: operator[] of std::map adds the key I when it is
\* missing.
touchSucc(R, I) ==
    [R EXCEPT !.InstrSucc = IF I \in DOMAIN @ THEN @ ELSE @ @@ (I :> <<>>)]

\* Outgoing after the loop over Repo.InstrSucc[I].
Outgoing(R, I) ==
    [k \in DOMAIN VecAt(R.InstrSucc, I) |-> R.InstrStmtMap[VecAt(R.InstrSucc, I)[k]]]

\* The body of for (auto &I : BB) of StaticDataBase::runBase.
exportInstr(W, I) ==
    IF I \notin DOMAIN W.repo.InstrStmtMap THEN W
    ELSE exportStatement(Written(touchSucc(W.repo, I), W.bytes),
                         W.repo.InstrStmtMap[I], Outgoing(W.repo, I))

RECURSIVE exportInstrs(_, _)
exportInstrs(W, Instrs) ==
    IF Instrs = <<>> THEN W
    ELSE exportInstrs(exportInstr(W, Head(Instrs)), Tail(Instrs))

RECURSIVE exportBlocks(_, _)
exportBlocks(W, Blocks) ==
    IF Blocks = <<>> THEN W
    ELSE exportBlocks(exportInstrs(W, M.body[Head(Blocks)]), Tail(Blocks))

\* for (auto &F : M), from the F-th function on.
RECURSIVE exportFunctions(_, _)
exportFunctions(W, F) ==
    IF F > Len(M.fns) THEN W
    ELSE IF M.fns[F].decl THEN exportFunctions(W, F + 1)
    ELSE exportFunctions(exportBlocks(exportFunctionName(W, F), M.fns[F].bbs), F + 1)

\* StaticDataBase::runBase once the stream is open: the header, the
\* functions, the filenames.
exportModule(R) == exportMetadata(exportFunctions(Written(R, Chars["AARD/S1"]), 1))

(***************************************************************************)
(* The documented format of the static artifact, read back.  A reader      *)
(* answers D = [ok, p, val]: whether the bytes from its position on were   *)
(* well formed, the position after what it read, and what it read.  An     *)
(* Access is read as an Access over value ids.                             *)
(***************************************************************************)
Malformed == [ok |-> FALSE, p |-> 0, val |-> <<>>]
Read(p, val) == [ok |-> TRUE, p |-> p, val |-> val]

byteAt(b, p) == IF p \in DOMAIN b THEN b[p] ELSE 0

\* The little-endian number of the n bytes at p; -1 when it needs more than
\* three bytes (no id, count, line or column of the model does).
RECURSIVE readNumber(_, _, _)
readNumber(b, p, n) ==
    IF n = 0 THEN 0
    ELSE IF n > 3
         THEN IF byteAt(b, p + n - 1) # 0 THEN -1 ELSE readNumber(b, p, n - 1)
         ELSE byteAt(b, p) + 256 * readNumber(b, p + 1, n - 1)

\* A number of n bytes at p, all of them inside the file.
decodeNumber(b, p, n) ==
    IF p + n - 1 > Len(b) \/ readNumber(b, p, n) < 0 THEN Malformed
    ELSE Read(p + n, readNumber(b, p, n))

\* The position of the first NUL at or after p, 0 when there is none.
RECURSIVE findNul(_, _)
findNul(b, p) ==
    IF p > Len(b) THEN 0 ELSE IF b[p] = 0 THEN p ELSE findNul(b, p + 1)

stringUpTo(b, p, nul) ==
    IF nul = 0 THEN Malformed ELSE Read(nul + 1, SubSeq(b, p, nul - 1))

\* A zero-terminated string at p.
decodeString(b, p) == stringUpTo(b, p, findNul(b, p))

\* (u64 fileId, u64 stmtId) at p, given the two numbers read.
pairOf(F, S) == IF F.ok /\ S.ok THEN Read(S.p, <<F.val, S.val>>) ELSE Malformed

decodeStatementId(b, p) == pairOf(decodeNumber(b, p, 8), decodeNumber(b, p + 8, 8))

\* The reader after H, with what H read put before what L read.
prepend(H, L) == IF H.ok /\ L.ok THEN Read(L.p, <<H.val>> \o L.val) ELSE Malformed

\* n statement ids from p on: the first half of them, then the others.
RECURSIVE decodeStatementIds(_, _, _)
joined(H, L) == IF H.ok /\ L.ok THEN Read(L.p, H.val \o L.val) ELSE Malformed
single(H) == IF H.ok THEN Read(H.p, <<H.val>>) ELSE Malformed
statementIdsAfter(b, H, n) ==
    IF ~H.ok THEN Malformed ELSE joined(H, decodeStatementIds(b, H.p, n))
decodeStatementIds(b, p, n) ==
    IF n = 0 THEN Read(p, <<>>)
    ELSE IF n = 1 THEN single(decodeStatementId(b, p))
    ELSE statementIdsAfter(b, decodeStatementIds(b, p, n \div 2), n - (n \div 2))

RECURSIVE decodeAccess(_, _)
RECURSIVE decodeAccesses(_, _, _)

accessesAfter(b, H, n) ==
    IF ~H.ok THEN Malformed ELSE prepend(H, decodeAccesses(b, H.p, n - 1))

\* n access encodings from p on.
decodeAccesses(b, p, n) ==
    IF n = 0 THEN Read(p, <<>>)
    ELSE accessesAfter(b, decodeAccess(b, p), n)

scalarOf(Id) == IF Id.ok THEN Read(Id.p, makeScalar(Id.val)) ELSE Malformed

structuralOf(Base, Field) ==
    IF Base.ok /\ Field.ok THEN Read(Field.p, makeStructural(Base.val, Field.val))
    ELSE Malformed

structuralAfter(b, Base) ==
    IF ~Base.ok THEN Malformed ELSE structuralOf(Base, decodeAccess(b, Base.p))

arrayLikeOf(Base, Indices) ==
    IF Base.ok /\ Indices.ok THEN Read(Indices.p, makeArrayLike(Base.val, Indices.val))
    ELSE Malformed

indicesAfter(b, Count) ==
    IF ~Count.ok THEN Malformed ELSE decodeAccesses(b, Count.p, Count.val)

arrayLikeAfter(b, Base) ==
    IF ~Base.ok THEN Malformed
    ELSE arrayLikeOf(Base, indicesAfter(b, decodeNumber(b, Base.p, 4)))

\* Scalar: 0xE0 u64 valueId.  Structural: 0xE1 <base> <field>.
\* ArrayLike: 0xE2 <base> u32 nIndices, nIndices accesses.
decodeAccess(b, p) ==
    IF p > Len(b) THEN Malformed
    ELSE IF b[p] = 224 THEN scalarOf(decodeNumber(b, p + 1, 8))
    ELSE IF b[p] = 225 THEN structuralAfter(b, decodeAccess(b, p + 1))
    ELSE IF b[p] = 226 THEN arrayLikeAfter(b, decodeAccess(b, p + 1))
    ELSE Malformed

\* u8 hasDef (0|1), then if 1 an access encoding.
defOf(A) == IF A.ok THEN Read(A.p, <<A.val>>) ELSE Malformed

decodeDef(b, p) ==
    IF p > Len(b) THEN Malformed
    ELSE IF b[p] = 0 THEN Read(p + 1, <<>>)
    ELSE IF b[p] = 1 THEN defOf(decodeAccess(b, p + 1))
    ELSE Malformed

\* u64 fileId, u32 beginLine, u32 beginCol, u32 endLine, u32 endCol.
locationRead(F, BL, BC, EL, EC) ==
    IF F.ok /\ BL.ok /\ BC.ok /\ EL.ok /\ EC.ok
    THEN Read(EC.p, [File |-> F.val, Begin |-> LineCol(BL.val, BC.val),
                     End |-> LineCol(EL.val, EC.val)])
    ELSE Malformed

decodeLocation(b, p) ==
    locationRead(decodeNumber(b, p, 8), decodeNumber(b, p + 8, 4),
                 decodeNumber(b, p + 12, 4), decodeNumber(b, p + 16, 4),
                 decodeNumber(b, p + 20, 4))

\* The statement record, its parts read one after the other.
recordRead(Id, Succs, Def, Uses, Loc, Meta) ==
    IF Meta.ok
    THEN Read(Meta.p, [id |-> Id.val, succs |-> Succs.val, def |-> Def.val,
                       uses |-> Uses.val, loc |-> Loc.val, meta |-> Meta.val])
    ELSE Malformed

recordAfterLoc(b, Id, Succs, Def, Uses, Loc) ==
    IF ~Loc.ok THEN Malformed
    ELSE recordRead(Id, Succs, Def, Uses, Loc, decodeNumber(b, Loc.p, 1))

recordAfterUses(b, Id, Succs, Def, Uses) ==
    IF ~Uses.ok THEN Malformed
    ELSE recordAfterLoc(b, Id, Succs, Def, Uses, decodeLocation(b, Uses.p))

usesAfter(b, Count) ==
    IF ~Count.ok THEN Malformed ELSE decodeAccesses(b, Count.p, Count.val)

recordAfterDef(b, Id, Succs, Def) ==
    IF ~Def.ok THEN Malformed
    ELSE recordAfterUses(b, Id, Succs, Def, usesAfter(b, decodeNumber(b, Def.p, 1)))

recordAfterSuccs(b, Id, Succs) ==
    IF ~Succs.ok THEN Malformed
    ELSE recordAfterDef(b, Id, Succs, decodeDef(b, Succs.p))

succsAfter(b, Count) ==
    IF ~Count.ok THEN Malformed ELSE decodeStatementIds(b, Count.p, Count.val)

recordAfterId(b, Id) ==
    IF ~Id.ok THEN Malformed
    ELSE recordAfterSuccs(b, Id, succsAfter(b, decodeNumber(b, Id.p, 1)))

decodeStatement(b, p) == recordAfterId(b, decodeStatementId(b, p))

\* The records of the body: [token, name, stmt].
FunctionItem(name) == [token |-> TOKEN_FUNCTION, name |-> name, stmt |-> <<>>]
StatementItem(stmt) == [token |-> TOKEN_STATEMENT, name |-> <<>>, stmt |-> <<stmt>>]

functionOfName(N) == IF N.ok THEN Read(N.p, FunctionItem(N.val)) ELSE Malformed
statementOfRecord(S) == IF S.ok THEN Read(S.p, StatementItem(S.val)) ELSE Malformed

\* The body from p up to the filenames token.
RECURSIVE decodeBody(_, _)
bodyAfter(b, H) == IF ~H.ok THEN Malformed ELSE prepend(H, decodeBody(b, H.p))
decodeBody(b, p) ==
    IF p > Len(b) THEN Malformed
    ELSE IF b[p] = TOKEN_FILENAMES THEN Read(p, <<>>)
    ELSE IF b[p] = TOKEN_FUNCTION THEN bodyAfter(b, functionOfName(decodeString(b, p + 1)))
    ELSE IF b[p] = TOKEN_STATEMENT THEN bodyAfter(b, statementOfRecord(decodeStatement(b, p + 1)))
    ELSE Malformed

\* The trailer: 0xFD, u32 count, count times u64 fileId and a path.
fileOf(Id, Path) ==
    IF Id.ok /\ Path.ok THEN Read(Path.p, [id |-> Id.val, path |-> Path.val]) ELSE Malformed

fileAfterId(b, Id) == IF ~Id.ok THEN Malformed ELSE fileOf(Id, decodeString(b, Id.p))

RECURSIVE decodeFiles(_, _, _)
filesAfter(b, H, n) == IF ~H.ok THEN Malformed ELSE prepend(H, decodeFiles(b, H.p, n - 1))
decodeFiles(b, p, n) ==
    IF n = 0 THEN Read(p, <<>>)
    ELSE filesAfter(b, fileAfterId(b, decodeNumber(b, p, 8)), n)

filesCounted(b, Count) ==
    IF ~Count.ok THEN Malformed ELSE decodeFiles(b, Count.p, Count.val)

decodeTrailer(b, p) == filesCounted(b, decodeNumber(b, p + 1, 4))

\* The whole artifact: what it holds, or Undecodable.
Undecodable == [ok |-> FALSE, body |-> <<>>, files |-> <<>>]

artifactOf(b, Body, Files) ==
    IF Files.ok /\ Files.p = Len(b) + 1
    THEN [ok |-> TRUE, body |-> Body.val, files |-> Files.val]
    ELSE Undecodable

artifactAfterBody(b, Body) ==
    IF ~Body.ok THEN Undecodable ELSE artifactOf(b, Body, decodeTrailer(b, Body.p))

HeaderLen == 7

decodeArtifact(b) ==
    IF Len(b) < HeaderLen \/ SubSeq(b, 1, HeaderLen) # Chars["AARD/S1"] THEN Undecodable
    ELSE artifactAfterBody(b, decodeBody(b, HeaderLen + 1))

(***************************************************************************)
(* What the repository holds, in the terms of the artifact: the records of *)
(* the registered statements in program order, with the ids of the maps.   *)
(***************************************************************************)
RECURSIVE withValueIds(_)
withValueIds(A) ==
    IF isScalar(A) THEN makeScalar(ValuesIdMap[A.Value])
    ELSE [Value |-> NullPtr, Base |-> <<withValueIds(A.Base[1])>>,
          Accessors |-> [k \in DOMAIN A.Accessors |-> withValueIds(A.Accessors[k])],
          Type |-> A.Type]

flagsOf(I) ==
    {f \in {"isArg", "isRet", "isCall"} :
        \/ f = "isArg" /\ isArg(InstrStmtMap[I])
        \/ f = "isRet" /\ isRet(InstrStmtMap[I])
        \/ f = "isCall" /\ isCall(InstrStmtMap[I])}

\* The flags a metadata byte holds: the flag's bits are all set.
RECURSIVE bitAnd(_, _)
bitAnd(a, b) ==
    IF a = 0 \/ b = 0 THEN 0
    ELSE ((a % 2) * (b % 2)) + 2 * bitAnd(a \div 2, b \div 2)

flagsIn(meta) ==
    {f \in {"isArg", "isRet", "isCall"} :
        \/ f = "isArg" /\ bitAnd(meta, META_ARG) = META_ARG
        \/ f = "isRet" /\ bitAnd(meta, META_RET) = META_RET
        \/ f = "isCall" /\ bitAnd(meta, META_CALL) = META_CALL}

recordOf(I) ==
    [id    |-> StmtsIdMap[I],
     succs |-> [k \in DOMAIN VecAt(InstrSucc, I) |-> StmtsIdMap[VecAt(InstrSucc, I)[k]]],
     def   |-> [k \in DOMAIN InstrStmtMap[I].Out |-> withValueIds(InstrStmtMap[I].Out[k])],
     uses  |-> [k \in DOMAIN SetToVec(InstrStmtMap[I].In) |->
                   withValueIds(SetToVec(InstrStmtMap[I].In)[k])],
     loc   |-> [File  |-> FilesIdMap[InstrStmtMap[I].Loc.File],
                Begin |-> InstrStmtMap[I].Loc.Begin,
                End   |-> InstrStmtMap[I].Loc.End],
     flags |-> flagsOf(I)]

RECURSIVE recordsOfInstrs(_)
recordsOfInstrs(Instrs) ==
    IF Instrs = <<>> THEN <<>>
    ELSE IF Head(Instrs) \in DOMAIN InstrStmtMap
         THEN <<[name |-> "", stmt |-> <<recordOf(Head(Instrs))>>]>>
              \o recordsOfInstrs(Tail(Instrs))
         ELSE recordsOfInstrs(Tail(Instrs))

RECURSIVE recordsOfBlocks(_)
recordsOfBlocks(Blocks) ==
    IF Blocks = <<>> THEN <<>>
    ELSE recordsOfInstrs(M.body[Head(Blocks)]) \o recordsOfBlocks(Tail(Blocks))

RECURSIVE recordsOfFunctions(_)
recordsOfFunctions(F) ==
    IF F > Len(M.fns) THEN <<>>
    ELSE IF M.fns[F].decl THEN recordsOfFunctions(F + 1)
    ELSE <<[name |-> getName(F), stmt |-> <<>>]>>
         \o recordsOfBlocks(M.fns[F].bbs) \o recordsOfFunctions(F + 1)

\* The records of the repository and its file table.
RepositoryRecords ==
    [body  |-> recordsOfFunctions(1),
     files |-> {[id |-> FilesIdMap[f], path |-> f] : f \in DOMAIN FilesIdMap},
     nFiles |-> Cardinality(DOMAIN FilesIdMap)]

\* The same of a decoded artifact: names as strings, metadata as flags.
Names == {"", "f1", "f2", "/src/a.c", "b.h"}

nameOf(chars) ==
    IF \E s \in Names : Chars[s] = chars
    THEN CHOOSE s \in Names : Chars[s] = chars
    ELSE "?"

decodedStatement(s) ==
    [id |-> s.id, succs |-> s.succs, def |-> s.def, uses |-> s.uses, loc |-> s.loc,
     flags |-> flagsIn(s.meta)]

DecodedRecords(D) ==
    [body  |-> [k \in DOMAIN D.body |->
                   [name |-> IF D.body[k].token = TOKEN_FUNCTION
                             THEN nameOf(D.body[k].name) ELSE "",
                    stmt |-> [j \in DOMAIN D.body[k].stmt |->
                                 decodedStatement(D.body[k].stmt[j])]]],
     files |-> {[id |-> D.files[k].id, path |-> nameOf(D.files[k].path)] :
                   k \in DOMAIN D.files},
     nFiles |-> Len(D.files)]

(***************************************************************************)
(* The dynamic instrumenter (DynamicData.cpp).  The call injected before   *)
(* instruction I (the marker) has the handle markerOf(I), the call that    *)
(* passes its value (the data call) the handle dataOf(I); Injected maps    *)
(* each to [callee, args], the arguments of a marker being the constants   *)
(* it was created with, those of a data call the handle of the value.      *)
(***************************************************************************)
markerOf(I) == 1000 + I
dataOf(I) == 2000 + I

\* llvm::Value::getType of the values of the pool and of the results of
\* the instructions of a module.
getType(h) ==
    IF h \notin DOMAIN Pool THEN "i32"
    ELSE IF h = 7 THEN "i64"
    ELSE IF h = 15 THEN "i8"
    ELSE IF h = 18 THEN "i16"
    ELSE IF h = 16 THEN "i1"
    ELSE IF h = 19 THEN "double"
    ELSE IF h = 22 THEN "float"
    ELSE IF h = 25 THEN "ptr"
    ELSE "i32"

\* llvm::isa<llvm::CallBase>: a CallInst or an InvokeInst.
isaCallBase(h) == isaCallInst(h) \/ Val(h).kind = "invoke"

getVarValue(I) ==
    IF Val(I).kind = "store" THEN Val(I).ops[1]
    ELSE IF isaCallBase(I) THEN IF Val(I).flag THEN NullPtr ELSE I
    ELSE NullPtr

\* getDefVarTracer for the value Value: <<>> for std::nullopt, else
\* <<[callee, args]>>.
tracerOf(Value, Ty) ==
    IF Value = NullPtr THEN <<>>
    ELSE IF Ty = "i8" THEN <<[callee |-> "aardwolf_write_data_i8", args |-> <<Value>>]>>
    ELSE IF Ty = "i16" THEN <<[callee |-> "aardwolf_write_data_i16", args |-> <<Value>>]>>
    ELSE IF Ty = "i32" THEN <<[callee |-> "aardwolf_write_data_i32", args |-> <<Value>>]>>
    ELSE IF Ty = "i64" THEN <<[callee |-> "aardwolf_write_data_i64", args |-> <<Value>>]>>
    ELSE IF Ty = "float" THEN <<[callee |-> "aardwolf_write_data_f32", args |-> <<Value>>]>>
    ELSE IF Ty = "double" THEN <<[callee |-> "aardwolf_write_data_f64", args |-> <<Value>>]>>
    ELSE IF Ty = "i1" THEN <<[callee |-> "aardwolf_write_data_bool", args |-> <<Value>>]>>
    ELSE <<[callee |-> "aardwolf_write_data_unsupported", args |-> <<>>]>>

getDefVarTracer(I) ==
    tracerOf(getVarValue(I), IF getVarValue(I) = NullPtr THEN "" ELSE getType(getVarValue(I)))

\* The instrumented module X = [body, val, dloc, inj]: the blocks, the
\* values and locations of the instructions, the injected calls.
indexOf(Instrs, I) == CHOOSE k \in DOMAIN Instrs : Instrs[k] = I

insertAt(Instrs, k, h) ==
    SubSeq(Instrs, 1, k - 1) \o <<h>> \o SubSeq(Instrs, k, Len(Instrs))

holds(Instrs, I) == \E k \in DOMAIN Instrs : Instrs[k] = I

\* CI->insertBefore(I), CI->insertAfter(I) on the blocks.
insertBefore(Body, I, h) ==
    [b \in DOMAIN Body |->
        IF holds(Body[b], I) THEN insertAt(Body[b], indexOf(Body[b], I), h) ELSE Body[b]]

insertAfter(Body, I, h) ==
    [b \in DOMAIN Body |->
        IF holds(Body[b], I) THEN insertAt(Body[b], indexOf(Body[b], I) + 1, h) ELSE Body[b]]

\* Builder.CreateCall(Callee, Args): a call of a void function that has no
\* debug location and is in no block yet.  The constant arguments of a
\* marker are ConstantInts (value 6 of the pool stands for them).
createCall(X, h, Call, Ops) ==
    [X EXCEPT !.val = (h :> T("call", Ops, TRUE, <<>>)) @@ @,
              !.dloc = (h :> NoLoc) @@ @,
              !.inj = (h :> Call) @@ @]

\* The mutant of markerArgs that passes the statement id first.
markerArgsSwapped(Id) == <<Id[2], Id[1]>>

\* Args of the marker: ConstantInt(FileRefTy, Id.first), ConstantInt(StmtRefTy, Id.second)
markerArgs(Id) == <<Id[1], Id[2]>>

\* The mutant of withMarker that inserts the marker after I.
withMarkerAfter(X, I, Id) ==
    [createCall(X, markerOf(I), [callee |-> "aardwolf_write_statement", args |-> markerArgs(Id)],
                <<6, 6>>)
        EXCEPT !.body = insertAfter(@, I, markerOf(I))]

\* The marker of I: created, then inserted before I.
withMarker(X, I, Id) ==
    [createCall(X, markerOf(I), [callee |-> "aardwolf_write_statement", args |-> markerArgs(Id)],
                <<6, 6>>)
        EXCEPT !.body = insertBefore(@, I, markerOf(I))]

\* The mutant of withData that puts every data call after its instruction.
withDataAlwaysAfter(X, I, WriteVar) ==
    IF WriteVar = <<>> THEN X
    ELSE [createCall(X, dataOf(I), WriteVar[1], WriteVar[1].args)
             EXCEPT !.body = insertAfter(@, I, dataOf(I))]

\* The data call of I, if getDefVarTracer gave one: before I when I is a
\* terminator, after I when it is not.
withData(X, I, WriteVar) ==
    IF WriteVar = <<>> THEN X
    ELSE [createCall(X, dataOf(I), WriteVar[1], WriteVar[1].args)
             EXCEPT !.body = IF isTerminator(Val(I))
                              THEN insertBefore(@, I, dataOf(I))
                              ELSE insertAfter(@, I, dataOf(I))]

\* The body of for (auto I : Repo.FuncInstrsMap[&F]).
instrumentInstr(X, R, I) ==
    withData(withMarker(X, I, getStatementId(R, R.InstrStmtMap[I]).id), I, getDefVarTracer(I))

RECURSIVE instrumentInstrs(_, _, _)
instrumentInstrs(X, R, Instrs) ==
    IF Instrs = <<>> THEN X
    ELSE instrumentInstrs(instrumentInstr(X, R, Head(Instrs)), R, Tail(Instrs))

\* for (auto &F : M), from the F-th function on.
RECURSIVE instrumentFunctions(_, _, _)
instrumentFunctions(X, R, F) ==
    IF F > Len(M.fns) THEN X
    ELSE IF M.fns[F].decl THEN instrumentFunctions(X, R, F + 1)
    ELSE instrumentFunctions(instrumentInstrs(X, R, VecAt(R.FuncInstrsMap, F)), R, F + 1)

\* Repo.FuncInstrsMap[&F]: operator[] adds the key of a function that has
\* no statement.
touchedFunctions(R) ==
    [R EXCEPT !.FuncInstrsMap =
        [F \in DOMAIN @ \cup {G \in DOMAIN M.fns : ~M.fns[G].decl} |-> VecAt(@, F)]]

\* DynamicDataBase::runBase
instrumentModule(R) ==
    instrumentFunctions([body |-> M.body, val |-> M.val, dloc |-> M.dloc, inj |-> EmptyMap],
                        R, 1)

(***************************************************************************)
(* The passes after the detection, and the driver (Main.cpp).              *)
(*   tool.static   "" before StaticData ran, "written" when it wrote the   *)
(*                 artifact, "failed" when it could not open it            *)
(*   tool.dynamic  DynamicData ran                                         *)
(*   tool.stale    the detection result was invalidated (the new pass      *)
(*                 manager, after DynamicData returned none())             *)
(*   tool.bitcode  the instrumented bitcode was written                    *)
(*   tool.exit     <<>> while the driver runs, else <<its exit code>>      *)
(***************************************************************************)

\* StaticData::run / LegacyStaticData::runOnModule: the stream opens or not.
StaticData ==
    /\ pc = "done"
    /\ tool.static = ""
    /\ ~tool.stale
    /\ \E opened \in BOOLEAN :
          IF opened
          THEN \E W \in {exportModule(Repo)} :
                  /\ SetRepo(W.repo)
                  /\ artifact' = <<W.bytes>>
                  /\ tool' = [tool EXCEPT !.static = "written"]
          ELSE /\ UNCHANGED <<repoVars, artifact>>
               /\ tool' = [tool EXCEPT !.static = "failed"]
    /\ UNCHANGED <<M, pc, passVars, accVars, calls, Injected, rtVars>>

\* DynamicData::run (it returns PreservedAnalyses::none(), so the result of
\* the detection is stale for a pass that asks for it later) /
\* LegacyDynamicData::runOnModule (setPreservesAll).
DynamicData ==
    /\ pc = "done"
    /\ ~tool.dynamic
    /\ \E X \in {instrumentModule(Repo)} : \E manager \in {"new", "legacy"} :
          /\ M' = [M EXCEPT !.body = X.body, !.val = X.val, !.dloc = X.dloc]
          /\ Injected' = X.inj
          /\ SetRepo(touchedFunctions(Repo))
          /\ tool' = [tool EXCEPT !.dynamic = TRUE,
                                  !.stale = (manager = "new" /\ tool.static = "")]
    /\ UNCHANGED <<pc, passVars, accVars, calls, artifact, rtVars>>

\* MAM.getResult<StatementDetection>(M) on a stale result: the analysis
\* pass, which keeps its Repo, runs again.
DetectAgain ==
    /\ pc = "done"
    /\ tool.stale
    /\ tool.static = ""
    /\ pc' = "fn"
    /\ loop' = [f |-> 1, b |-> 1, i |-> 1]
    /\ First' = NullPtr /\ Prev' = NullPtr
    /\ BBBounds' = EmptyMap /\ BBPred' = <<>>
    /\ tool' = [tool EXCEPT !.stale = FALSE]
    /\ UNCHANGED <<M, repoVars, accVars, calls, artifact, Injected, rtVars>>

\* main: the output file !instrumented.bc cannot be opened (or the input
\* not parsed), return 1 before process(*M).
OutputUnopened ==
    /\ pc = "fn"
    /\ loop = [f |-> 1, b |-> 1, i |-> 1]
    /\ StmtsIdMap = EmptyMap
    /\ tool = NotRun
    /\ pc' = "exited"
    /\ tool' = [tool EXCEPT !.exit = <<1>>]
    /\ UNCHANGED <<M, repoVars, passVars, accVars, calls, artifact, Injected, rtVars>>

\* main after process(*M): the bitcode is written when the module was
\* instrumented, return 0.
Return ==
    /\ pc = "done"
    /\ tool.static # ""
    /\ pc' = "exited"
    /\ tool' = [tool EXCEPT !.bitcode = tool.dynamic, !.exit = <<0>>]
    /\ UNCHANGED <<M, repoVars, passVars, accVars, calls, artifact, Injected, rtVars>>

NextTool ==
    \/ Next
    \/ StaticData
    \/ DynamicData
    \/ DetectAgain
    \/ OutputUnopened
    \/ Return

\* The modules the passes run on: one instruction of every shape, and the
\* control-flow graphs whose entry block holds a statement and whose last
\* block returns.
ToolModules ==
    ShapeModules
    \cup {CfgModule(L) : L \in {K \in Layouts : ~K[1].e /\ K[NumBlocks].t.k = "ret"}}

InitTool ==
    /\ M \in ToolModules
    /\ EmptyRepo
    /\ pc = "fn"
    /\ loop = [f |-> 1, b |-> 1, i |-> 1]
    /\ First = NullPtr /\ Prev = NullPtr
    /\ BBBounds = EmptyMap /\ BBPred = <<>>
    /\ lhs = <<>> /\ rhs = <<>> /\ cmp = NoCmp
    /\ calls = <<>>
    /\ Untouched

SpecTool == InitTool /\ [][NextTool]_vars

(***************************************************************************)
(* The serializer on a switch of many cases.  The detection of a function  *)
(* whose entry block ends in a switch of n cases, all of them to the block *)
(* of the return, leaves the switch with n successors (one for each use of *)
(* the block by the terminator); the repository is built here with the     *)
(* calls runBase makes, and StaticData exports it.                         *)
(***************************************************************************)
MaxCases == 256

WideModule(n) ==
    ShapeModule(T("switch", <<8>>, FALSE, [k \in 1..n |-> 2]), LocA, NoDeclares)

EmptyRepository ==
    [InstrStmtMap |-> EmptyMap, FuncInstrsMap |-> EmptyMap, InstrSucc |-> EmptyMap,
     StmtsIdMap |-> EmptyMap, ValuesIdMap |-> EmptyMap, FilesIdMap |-> EmptyMap]

\* The repository after n calls Repo.addSuccessor(Stmt, Succ): n times
\* InstrSucc[Stmt].push_back(Succ).
addSuccessors(R, Stmt, Succ, n) ==
    [R EXCEPT !.InstrSucc =
        [I \in DOMAIN @ \cup {Stmt} |-> VecAt(@, I) \o [k \in 1..n |-> Succ]]]

\* The repository runBase leaves for WideModule(n): the switch 101 and the
\* return 103 registered, n edges from the one to the other.
DetectedWide(n) ==
    addSuccessors(registerStatement(registerStatement(EmptyRepository, 2, runOnInstr(101).stmt),
                                    2, runOnInstr(103).stmt),
                  101, 103, n)

InitExport ==
    /\ M \in {WideModule(n) : n \in 1..MaxCases}
    /\ \E R \in {DetectedWide(Len(M.val[101].succs))} :
          /\ InstrStmtMap = R.InstrStmtMap /\ FuncInstrsMap = R.FuncInstrsMap
          /\ InstrSucc = R.InstrSucc /\ StmtsIdMap = R.StmtsIdMap
          /\ ValuesIdMap = R.ValuesIdMap /\ FilesIdMap = R.FilesIdMap
    /\ pc = "done"
    /\ loop = [f |-> 3, b |-> 1, i |-> 1]
    /\ First = NullPtr /\ Prev = NullPtr
    /\ BBBounds = (1 :> <<101, 101>>) @@ (2 :> <<103, 103>>) /\ BBPred = <<>>
    /\ lhs = <<>> /\ rhs = <<>> /\ cmp = NoCmp
    /\ calls = <<>>
    /\ Untouched

NextExport == StaticData

SpecExport == InitExport /\ [][NextExport]_vars

(***************************************************************************)
(* The runtime (src/runtime/runtime.c) in a traced process.  The process   *)
(* makes up to MaxApiCalls calls of the API, one after the other.  disk is *)
(* what the operating system holds of aard.trace, stream what the FILE     *)
(* buffers; trace logs each call: the function, its arguments, the number  *)
(* of times it opened the file and the record it put in the stream.        *)
(***************************************************************************)
MaxApiCalls == 3

TOKEN_EXTERNAL         == 254
TOKEN_DATA_UNSUPPORTED == 16
TOKEN_DATA_I8          == 17
TOKEN_DATA_I32         == 19
FILE_FORMAT_VERSION    == 1
ASCII_ZERO             == 48

Builds == [NO_HEADER : BOOLEAN, NO_DATA : BOOLEAN]

\* The process as the runtime sees it.
Process == [fd |-> aardwolf_fd, disk |-> disk, stream |-> stream, opens |-> 0]

\* fputs, fputc, fwrite: the bytes go to the buffer of the FILE.
fwrite(P, bytes) == [P EXCEPT !.stream = @ \o bytes]

\* fflush: the buffer goes to the file; the process only ever writes at the
\* end of the file, in mode "w" as in mode "a".
fflush(P) == [P EXCEPT !.disk = @ \o P.stream, !.stream = <<>>]

\* fopen: "w" truncates the file, "a" keeps what it holds.
fopen(P, mode) ==
    [P EXCEPT !.fd = <<"aard.trace">>,
              !.disk = IF mode = "w" THEN <<>> ELSE @,
              !.opens = @ + 1]

Header == Chars["AARD/D"] \o <<FILE_FORMAT_VERSION + ASCII_ZERO>>

write_header(P) == fwrite(P, Header)

aardwolf_get_fd(P, B) ==
    IF P.fd # <<>> THEN P
    ELSE IF B.NO_HEADER THEN fopen(P, "a")
    ELSE write_header(fopen(P, "w"))

aardwolf_write_data(P, B, token, data) ==
    IF B.NO_DATA THEN P
    ELSE fflush(fwrite(aardwolf_get_fd(P, B), <<token>> \o data))

\* The definition has the one parameter id.
aardwolf_write_statement(P, B, id) ==
    aardwolf_write_data(P, B, TOKEN_STATEMENT, LittleEndian(id, 8))

\* fseek(fd, 0, SEEK_END) leaves the position where it is, at the end.
aardwolf_write_external(P, B, external) ==
    IF B.NO_DATA THEN P
    ELSE fflush(fwrite(aardwolf_get_fd(P, B), <<TOKEN_EXTERNAL>> \o Chars[external] \o <<0>>))

aardwolf_write_header(P, B) == write_header(aardwolf_get_fd(P, B))

aardwolf_write_data_unsupported(P, B) ==
    aardwolf_write_data(P, B, TOKEN_DATA_UNSUPPORTED, <<>>)

aardwolf_write_data_i8(P, B, value) ==
    aardwolf_write_data(P, B, TOKEN_DATA_I8, LittleEndian(value, 1))

aardwolf_write_data_i32(P, B, value) ==
    aardwolf_write_data(P, B, TOKEN_DATA_I32, LittleEndian(value, 4))

\* The call returned and left the process as Q.
Returned(fn, args, Q) ==
    /\ pc = "runtime"
    /\ Len(trace) < MaxApiCalls
    /\ aardwolf_fd' = Q.fd /\ disk' = Q.disk /\ stream' = Q.stream
    /\ trace' = Append(trace, [fn |-> fn, args |-> args, opens |-> Q.opens])
    /\ UNCHANGED <<M, repoVars, pc, passVars, accVars, calls, toolVars, build>>

\* aardwolf_write_statement(file_id, stmt_id) as runtime.h declares it and
\* as the instrumented program calls it.  The definition reads one
\* parameter: which of the two arguments it finds there is not defined.
StatementCall ==
    \E file_id \in {7} : \E stmt_id \in {3} : \E id \in {file_id, stmt_id} :
        Returned("aardwolf_write_statement", <<file_id, stmt_id, id>>,
                 aardwolf_write_statement(Process, build, id))

ExternalCall ==
    \E external \in {"t1"} :
        Returned("aardwolf_write_external", <<external>>,
                 aardwolf_write_external(Process, build, external))

HeaderCall == Returned("aardwolf_write_header", <<>>, aardwolf_write_header(Process, build))

UnsupportedCall ==
    Returned("aardwolf_write_data_unsupported", <<>>,
             aardwolf_write_data_unsupported(Process, build))

I8Call ==
    \E value \in {-1} :
        Returned("aardwolf_write_data_i8", <<value>>,
                 aardwolf_write_data_i8(Process, build, value))

I32Call ==
    \E value \in {42} :
        Returned("aardwolf_write_data_i32", <<value>>,
                 aardwolf_write_data_i32(Process, build, value))

\* __aardwolf_get_fd when fopen returns NULL: the message, then exit(1).
CannotOpen ==
    /\ pc = "runtime"
    /\ Len(trace) < MaxApiCalls
    /\ aardwolf_fd = <<>>
    /\ pc' = "exited"
    /\ UNCHANGED <<M, repoVars, passVars, accVars, calls, toolVars, rtVars>>

\* The process terminates: the C library flushes and closes the FILE.
Exit ==
    /\ pc = "runtime"
    /\ pc' = "exited"
    /\ disk' = disk \o stream
    /\ stream' = <<>>
    /\ UNCHANGED <<M, repoVars, passVars, accVars, calls, toolVars, aardwolf_fd, trace, build>>

\* The process is killed: what the FILE buffers is lost.
Crash ==
    /\ pc = "runtime"
    /\ pc' = "crashed"
    /\ stream' = <<>>
    /\ UNCHANGED <<M, repoVars, passVars, accVars, calls, toolVars, aardwolf_fd, disk, trace, build>>

\* A trace file an earlier process left.
OldTrace == Header \o <<TOKEN_DATA_UNSUPPORTED>>

InitRuntime ==
    /\ M = WideModule(1)
    /\ EmptyRepo
    /\ pc = "runtime"
    /\ loop = [f |-> 1, b |-> 1, i |-> 1]
    /\ First = NullPtr /\ Prev = NullPtr
    /\ BBBounds = EmptyMap /\ BBPred = <<>>
    /\ lhs = <<>> /\ rhs = <<>> /\ cmp = NoCmp
    /\ calls = <<>>
    /\ artifact = <<>> /\ Injected = EmptyMap /\ tool = NotRun
    /\ aardwolf_fd = <<>> /\ stream = <<>> /\ trace = <<>>
    /\ disk \in {<<>>, OldTrace}
    /\ build \in Builds

NextRuntime ==
    \/ StatementCall \/ ExternalCall \/ HeaderCall
    \/ UnsupportedCall \/ I8Call \/ I32Call
    \/ CannotOpen \/ Exit \/ Crash

SpecRuntime == InitRuntime /\ [][NextRuntime]_vars

(***************************************************************************)
(* The repository under its clients' calls: registerStatement and          *)
(* getStatementId for the statements of a module, in any order, up to      *)
(* MaxCalls calls.  calls logs what the calls returned: n the number of    *)
(* calls, first the id each instruction got at its first call, count the   *)
(* number of calls per instruction, last the latest <<instruction, id>>.   *)
(***************************************************************************)
MaxCalls == 3

RepoInstrs == {101, 102, 103}

\* Two functions: 101 and 102 in the block of the first, 103 and the
\* return 104 in the block of the second; each store has its own location.
RepoModule(Locs, Ino) ==
    [fns  |-> <<[decl |-> FALSE, bbs |-> <<1>>], [decl |-> FALSE, bbs |-> <<2>>]>>,
     body |-> [b \in {1, 2} |-> IF b = 1 THEN <<101, 102>> ELSE <<103, 104>>],
     val  |-> Pool @@ [h \in RepoInstrs \cup {104} |->
                  IF h = 104 THEN T("ret", <<8>>, FALSE, <<>>)
                  ELSE T("store", <<8, 10>>, FALSE, <<>>)],
     dloc |-> [h \in RepoInstrs \cup {104} |-> IF h = 104 THEN LocA ELSE Locs[h]],
     dbg  |-> NoDeclares,
     ino  |-> Ino]

RepoModules ==
    {RepoModule(Locs, Ino) :
        Locs \in [RepoInstrs -> {LocA, LocB, LocNoFile}],
        Ino \in {Inodes, [Inodes EXCEPT !["b.h"] = -1]}}

functionOf(h) == IF h = 103 THEN 2 ELSE 1

NoCalls == [n |-> 0, first |-> EmptyMap, count |-> [h \in RepoInstrs |-> 0], last |-> <<>>]

Logged(h, id) ==
    [n     |-> calls.n + 1,
     first |-> MapInsert(calls.first, h, id),
     count |-> [calls.count EXCEPT ![h] = @ + 1],
     last  |-> <<h, id>>]

\* Repo.registerStatement(F, Stmt) for the statement of instruction h; the id
\* it yields is the one the repository holds for h afterwards.
RegisterStatement ==
    /\ pc = "repo"
    /\ calls.n < MaxCalls
    /\ \E h \in RepoInstrs : \E Stmt \in {runOnInstr(h).stmt} :
          \E R \in {registerStatement(Repo, functionOf(h), Stmt)} :
             /\ SetRepo(R)
             /\ calls' = Logged(h, getStatementId(R, Stmt).id)
    /\ UNCHANGED <<M, pc, passVars, accVars, toolVars, rtVars>>

\* Repo.getStatementId(Stmt) for the statement of instruction h.
GetStatementId ==
    /\ pc = "repo"
    /\ calls.n < MaxCalls
    /\ \E h \in RepoInstrs : \E Got \in {getStatementId(Repo, runOnInstr(h).stmt)} :
          /\ SetRepo(Got.repo)
          /\ calls' = Logged(h, Got.id)
    /\ UNCHANGED <<M, pc, passVars, accVars, toolVars, rtVars>>

InitRepo ==
    /\ M \in RepoModules
    /\ EmptyRepo
    /\ pc = "repo"
    /\ loop = [f |-> 1, b |-> 1, i |-> 1]
    /\ First = NullPtr /\ Prev = NullPtr
    /\ BBBounds = EmptyMap /\ BBPred = <<>>
    /\ lhs = <<>> /\ rhs = <<>> /\ cmp = NoCmp
    /\ calls = NoCalls
    /\ Untouched

NextRepo == RegisterStatement \/ GetStatementId

SpecRepo == InitRepo /\ [][NextRepo]_vars

(***************************************************************************)
(* Definitions the claims are stated with.                                 *)
(***************************************************************************)
\* The handles reachable from h along operand edges, h included.
RECURSIVE reachFrom(_, _)
reachFrom(Todo, Seen) ==
    IF Todo = {} THEN Seen
    ELSE LET h == CHOOSE x \in Todo : TRUE
             Ops == {Val(h).ops[k] : k \in DOMAIN Val(h).ops}
         IN  reachFrom((Todo \cup Ops) \ (Seen \cup {h}), Seen \cup {h})

Reach(h) == reachFrom({h}, {})

\* Every instruction of the module that stands in a block.
ModuleInstrs ==
    UNION {{M.body[M.fns[f].bbs[b]][k] : k \in DOMAIN M.body[M.fns[f].bbs[b]]} :
              <<f, b>> \in {fb \in (DOMAIN M.fns) \X (1..NumBlocks) :
                               fb[2] \in DOMAIN M.fns[fb[1]].bbs}}

Registered == DOMAIN InstrStmtMap

RegisteredStores == {I \in Registered : Val(I).kind = "store"}

RootsOf(Accesses) == {getValueOrBase(A) : A \in Accesses}

\* An Access with the Accesses nested in it: its base, fields and indices.
RECURSIVE Nested(_)
Nested(A) ==
    IF isScalar(A) THEN {A}
    ELSE {A} \cup Nested(A.Base[1])
             \cup UNION {Nested(A.Accessors[k]) : k \in DOMAIN A.Accessors}

\* The In and Out Accesses of the statement of I.
TopAccesses(I) ==
    InstrStmtMap[I].In \cup {InstrStmtMap[I].Out[k] : k \in DOMAIN InstrStmtMap[I].Out}

\* The edges of the successor map.
SuccEdges ==
    {e \in (DOMAIN InstrSucc) \X ModuleInstrs :
        \E k \in DOMAIN InstrSucc[e[1]] : InstrSucc[e[1]][k] = e[2]}

blockOfInstr(h) == CHOOSE b \in DOMAIN M.body : \E k \in DOMAIN M.body[b] : M.body[b][k] = h

\* The statements of block B in program order.
stmtsOfBlock(B) == SelectSeq(M.body[B], LAMBDA h : h \in Registered)

\* The blocks the terminator of P branches to.
BlockSuccs(P) ==
    {M.val[M.body[P][Len(M.body[P])]].succs[k] :
        k \in DOMAIN M.val[M.body[P][Len(M.body[P])]].succs}

BlocksOf(f) == {M.fns[f].bbs[k] : k \in DOMAIN M.fns[f].bbs}

\* S with the predecessors of its blocks that hold no statement, and so on.
RECURSIVE backThroughEmpty(_, _)
backThroughEmpty(f, S) ==
    LET More == {P \in BlocksOf(f) :
                    \E E \in S : stmtsOfBlock(E) = <<>> /\ E \in BlockSuccs(P)}
    IN  IF More \subseteq S THEN S ELSE backThroughEmpty(f, S \cup More)

\* The blocks with a CFG path to B whose intermediate blocks hold no statement.
JoinedTo(f, B) == backThroughEmpty(f, {P \in BlocksOf(f) : B \in BlockSuccs(P)})

\* The edges of the reference statement-level CFG inside block B of
\* function f and into it.
EdgesOf(f, B) ==
    {<<stmtsOfBlock(B)[k], stmtsOfBlock(B)[k + 1]>> : k \in 1..(Len(stmtsOfBlock(B)) - 1)}
    \cup IF stmtsOfBlock(B) = <<>> THEN {}
         ELSE {<<stmtsOfBlock(P)[Len(stmtsOfBlock(P))], stmtsOfBlock(B)[1]>> :
                  P \in {Q \in JoinedTo(f, B) : stmtsOfBlock(Q) # <<>>}}

\* The reference statement-level CFG.
RefEdges ==
    UNION {EdgesOf(x[1], x[2]) :
              x \in {y \in (DOMAIN M.fns) \X (DOMAIN M.body) : y[2] \in BlocksOf(y[1])}}

\* The kinds of instruction that make a statement: the reading of the
\* list in which a call of an intrinsic makes none, and the one in which
\* only a call of a debug intrinsic makes none.
ListedKind(h) ==
    \/ Val(h).kind \in {"ret", "switch", "invoke", "store", "call"}
    \/ Val(h).kind = "br" /\ Val(h).ops # <<>>

StatementKind(h) == ListedKind(h) \/ Val(h).kind = "intrinsic"

\* The instruction has a location with a scope: its own, or, for the store
\* of an argument that has none, that of a debug-declare of the destination.
LocResolvable(h) ==
    \/ M.dloc[h].has /\ M.dloc[h].scope
    \/ /\ ~M.dloc[h].has
       /\ Val(h).kind = "store"
       /\ Val(Val(h).ops[1]).kind = "arg"
       /\ \E k \in DOMAIN M.dbg[Val(h).ops[2]] : M.dbg[Val(h).ops[2]][k].scope

\* A variable: a local allocation or a global that is not constant.
IsVariable(h) == Val(h).kind = "alloca" \/ (Val(h).kind = "global" /\ ~Val(h).flag)

StoredValue(I) == Val(I).ops[1]
Destination(I) == Val(I).ops[2]
OutOf(I) == InstrStmtMap[I].Out[1]
IndicesOf(I) == {OutOf(I).Accessors[k] : k \in DOMAIN OutOf(I).Accessors}

\* The stores into an element of an array.
ArrayStores ==
    {I \in RegisteredStores :
        /\ Val(Destination(I)).kind = "gep"
        /\ ~Val(Destination(I)).flag
        /\ InstrStmtMap[I].Out # <<>>}

(***************************************************************************)
(* The claims.                                                             *)
(***************************************************************************)
StmtIdsOfFile(F) ==
    {StmtsIdMap[I][2] : I \in {J \in DOMAIN StmtsIdMap : StmtsIdMap[J][1] = F}}

\* C1: after any sequence of registrations, the stmtIds of the statements
\* of every file id are exactly 1..n, n the number of those statements.
C1_DensePerFile ==
    \A F \in {StmtsIdMap[I][1] : I \in DOMAIN StmtsIdMap} :
        StmtIdsOfFile(F) = 1..Cardinality({J \in DOMAIN StmtsIdMap : StmtsIdMap[J][1] = F})

C3_EqualityIsStructural ==
    pc = "compared" => (cmp.eq <=> (lhs = rhs))

\* C4: the hash is consistent with equality: a == b implies hash(a) = hash(b).
C4_HashFollowsEquality ==
    pc = "compared" => (cmp.eq => cmp.hl = cmp.hr)

\* C5: when detection has returned, the successor map holds exactly the
\* edges of the reference statement-level CFG: consecutive statements of a
\* block, and last(P) -> first(B) for the non-empty blocks P and B joined by
\* a path whose intermediate blocks are empty.
C5_SuccessorsAreTheCfg == pc = "done" => SuccEdges = RefEdges

C5_Witness ==
    /\ pc = "done"
    /\ \E e \in SuccEdges :
          /\ blockOfInstr(e[1]) # blockOfInstr(e[2])
          /\ blockOfInstr(e[2]) \notin BlockSuccs(blockOfInstr(e[1]))
    /\ \E e \in SuccEdges : blockOfInstr(e[1]) = blockOfInstr(e[2])

\* C6 as stated: when detection has returned, an instruction is registered
\* iff it is of a listed kind - a call of an intrinsic is not - and its
\* location is resolvable.
C6_RegisteredIffListed ==
    pc = "done" =>
        \A h \in ModuleInstrs : h \in Registered <=> (ListedKind(h) /\ LocResolvable(h))

\* C6 amended: when detection has returned, an instruction is registered
\* iff it is a return, a conditional branch, a switch, an invoke, a store or
\* a call that is no debug intrinsic, and its location is resolvable.
C6_RegisteredIffStatementKind ==
    pc = "done" =>
        \A h \in ModuleInstrs : h \in Registered <=> (StatementKind(h) /\ LocResolvable(h))

C6_Witness ==
    /\ pc = "done"
    /\ \E h \in Registered : Val(h).kind = "intrinsic"
    /\ \E h \in ModuleInstrs \ Registered : Val(h).kind = "br"

C8_EveryRootHasAnId ==
    pc = "done" =>
        \A I \in Registered : \A A \in TopAccesses(I) : \A N \in Nested(A) :
            /\ getValueOrBase(N) # NullPtr
            /\ getValueOrBase(N) \in DOMAIN ValuesIdMap

\* C8 amended: when detection has returned, the root value of every Access
\* that is a member of In or is the Out of a registered statement is not null
\* and has a value id.
C8_TopRootsHaveAnId ==
    pc = "done" =>
        \A I \in Registered : \A A \in TopAccesses(I) :
            /\ getValueOrBase(A) # NullPtr
            /\ getValueOrBase(A) \in DOMAIN ValuesIdMap

C8_Witness ==
    /\ pc = "done"
    /\ \E I \in Registered : \E A \in TopAccesses(I) :
          /\ ~isScalar(A)
          /\ \E N \in Nested(A) : getValueOrBase(N) \notin DOMAIN ValuesIdMap

\* C9: every registered statement has a non-empty file and a line of at
\* least 1.
C9_LocationsAreReal ==
    \A I \in Registered :
        /\ InstrStmtMap[I].Loc.File # ""
        /\ InstrStmtMap[I].Loc.Begin.Line >= 1

\* C10: every call of registerStatement and getStatementId for an
\* instruction yields the id of its first call, whatever was registered in
\* between, and the repository keeps that id.
C10_IdsAreStable ==
    /\ \A h \in DOMAIN calls.first : StmtsIdMap[h] = calls.first[h]
    /\ calls.last # <<>> => calls.last[2] = calls.first[calls.last[1]]

C10_Witness ==
    /\ calls.n = MaxCalls
    /\ \E h \in RepoInstrs :
          /\ calls.count[h] >= 2
          /\ calls.last[1] = h
          /\ \E g \in DOMAIN StmtsIdMap : StmtsIdMap[g][2] > StmtsIdMap[h][2]

\* C11: the static artifact round-trips: read back by the documented format,
\* the bytes StaticData wrote give the statement records of the repository
\* (identity, successors, def, uses, location, flags) in program order under
\* their function names, and its file table.
roundTrips(D) == D.ok /\ DecodedRecords(D) = RepositoryRecords

C11_ArtifactRoundTrips == artifact # <<>> => roundTrips(decodeArtifact(artifact[1]))

\* The arguments of the injected calls of aardwolf_write_statement, in
\* program order.
RECURSIVE markersOfInstrs(_)
markersOfInstrs(Instrs) ==
    IF Instrs = <<>> THEN <<>>
    ELSE IF /\ Head(Instrs) \in DOMAIN Injected
            /\ Injected[Head(Instrs)].callee = "aardwolf_write_statement"
         THEN <<Injected[Head(Instrs)].args>> \o markersOfInstrs(Tail(Instrs))
         ELSE markersOfInstrs(Tail(Instrs))

RECURSIVE markersOfBlocks(_)
markersOfBlocks(Blocks) ==
    IF Blocks = <<>> THEN <<>>
    ELSE markersOfInstrs(M.body[Head(Blocks)]) \o markersOfBlocks(Tail(Blocks))

RECURSIVE markersOfFunctions(_)
markersOfFunctions(F) ==
    IF F > Len(M.fns) THEN <<>>
    ELSE markersOfBlocks(M.fns[F].bbs) \o markersOfFunctions(F + 1)

MarkerIds == markersOfFunctions(1)

\* The identities of the statement records of a decoded artifact, in the
\* order of the file.
RECURSIVE identitiesOf(_)
identitiesOf(Body) ==
    IF Body = <<>> THEN <<>>
    ELSE IF Head(Body).token = TOKEN_STATEMENT
         THEN <<Head(Body).stmt[1].id>> \o identitiesOf(Tail(Body))
         ELSE identitiesOf(Tail(Body))

ArtifactIds == identitiesOf(decodeArtifact(artifact[1]).body)

\* C12: the (fileId, stmtId) constants passed to the injected calls of
\* aardwolf_write_statement are the identities written in the static
\* artifact, statement by statement in program order, whichever of the
\* serializer and the instrumenter ran first.
C12_MarkersCarryTheArtifactIds ==
    (artifact # <<>> /\ tool.dynamic) => MarkerIds = ArtifactIds

\* Both passes ran on a module of two statements or more, the instrumenter
\* first and under the new pass manager (the detection ran again, so the
\* statements are twice in FuncInstrsMap), or the serializer first.
C12_Witness ==
    /\ artifact # <<>>
    /\ tool.dynamic
    /\ Len(MarkerIds) >= 2
    /\ \E F \in DOMAIN FuncInstrsMap :
          \E j, k \in DOMAIN FuncInstrsMap[F] : j # k /\ FuncInstrsMap[F][j] = FuncInstrsMap[F][k]

isInjected(h) == h \in DOMAIN Injected
isMarker(h) == isInjected(h) /\ Injected[h].callee = "aardwolf_write_statement"
isDataCall(h) == isInjected(h) /\ Injected[h].callee # "aardwolf_write_statement"

\* The positions before position p of a block that only injected calls
\* separate from p.
gapBefore(Instrs, p) == {q \in 1..(p - 1) : \A k \in q..(p - 1) : isInjected(Instrs[k])}

markersBefore(Instrs, p) == {q \in gapBefore(Instrs, p) : isMarker(Instrs[q])}

\* Statement I, at position p of its block, has one marker before it, its
\* own, and its data call (if it has one) comes after the marker.
markedOnceAt(Instrs, p, I) ==
    /\ Cardinality(markersBefore(Instrs, p)) = 1
    /\ \A q \in markersBefore(Instrs, p) :
          /\ Injected[Instrs[q]].args = StmtsIdMap[I]
          /\ \A d \in DOMAIN Instrs : Instrs[d] = dataOf(I) => q < d

markedOnce(Instrs, I) ==
    /\ Cardinality({p \in DOMAIN Instrs : Instrs[p] = I}) = 1
    /\ \A p \in DOMAIN Instrs : Instrs[p] = I => markedOnceAt(Instrs, p, I)

\* C13: after the instrumenter ran, every registered statement, terminator
\* or not, has exactly one marker call before it with no original
\* instruction between the two, and the marker precedes the data call of
\* the same statement.
C13_OneMarkerBeforeEachStatement ==
    tool.dynamic => \A I \in Registered : markedOnce(M.body[blockOfInstr(I)], I)

\* An instrumented block that ends in a terminator with a data call (an
\* invoke that returns a value).
C13_Witness ==
    /\ tool.dynamic
    /\ \E I \in Registered :
          /\ isTerminator(Val(I))
          /\ dataOf(I) \in DOMAIN Injected
          /\ \E J \in Registered : ~isTerminator(Val(J)) \/ dataOf(J) \notin DOMAIN Injected

\* The data call h comes after the instruction that defines the value it
\* passes, when that is an instruction of the same block.
afterItsValue(Instrs, h) ==
    \A d \in DOMAIN Instrs : \A v \in DOMAIN Instrs :
        (Instrs[d] = h /\ Injected[h].args # <<>> /\ Instrs[v] = Injected[h].args[1]) => v < d

endsInItsTerminator(Instrs) ==
    /\ Instrs # <<>>
    /\ ~isInjected(Instrs[Len(Instrs)])
    /\ isTerminator(Val(Instrs[Len(Instrs)]))

\* C14: after the instrumenter ran, every data call comes after the
\* instruction that defines the value it passes (for a call or an invoke,
\* the statement's own result), and every block still ends with its
\* original terminator.
C14_DataCallAfterItsValue ==
    tool.dynamic =>
        /\ \A I \in Registered :
              dataOf(I) \in DOMAIN Injected
                  => afterItsValue(M.body[blockOfInstr(I)], dataOf(I))
        /\ \A b \in DOMAIN M.body : endsInItsTerminator(M.body[b])

\* C15: after the instrumenter ran, a statement has a data call if and only
\* if its Out is present (hasDef = 1 in the artifact).
C15_DataCallIffOut ==
    tool.dynamic =>
        \A I \in Registered : (dataOf(I) \in DOMAIN Injected) <=> (InstrStmtMap[I].Out # <<>>)

\* C16: the statement of a call has Out = Scalar(call) if and only if the
\* call returns a value, a call of a void function has no Out; and the
\* metadata of a statement holds META_CALL if and only if the statement is
\* that of a call.
C16_CallOutIffValue ==
    \A I \in Registered :
        /\ isaCallInst(I) =>
              InstrStmtMap[I].Out = (IF Val(I).flag THEN <<>> ELSE <<makeScalar(I)>>)
        /\ ("isCall" \in flagsIn(getMetadata(InstrStmtMap[I]))) <=> isaCallInst(I)

\* A call that returns a value is registered.
C16_Witness ==
    \E I \in Registered :
        /\ isaCallInst(I)
        /\ ~Val(I).flag
        /\ InstrStmtMap[I].Out = <<makeScalar(I)>>
        /\ getMetadata(InstrStmtMap[I]) = META_CALL

\* C20: when the static artifact cannot be opened, the analysis fails fast:
\* the driver does not return 0 and no instrumented bitcode is written.
C20_StaticFailureFailsFast ==
    tool.static = "failed" => (tool.exit # <<0>> /\ ~tool.bitcode)

\* The record a call of the API leaves in the trace; the statement record
\* is taken with the one id the definition read.
recordOfCall(c) ==
    IF c.fn = "aardwolf_write_statement" THEN <<TOKEN_STATEMENT>> \o LittleEndian(c.args[3], 8)
    ELSE IF c.fn = "aardwolf_write_external" THEN <<TOKEN_EXTERNAL>> \o Chars[c.args[1]] \o <<0>>
    ELSE IF c.fn = "aardwolf_write_data_unsupported" THEN <<TOKEN_DATA_UNSUPPORTED>>
    ELSE IF c.fn = "aardwolf_write_data_i8" THEN <<TOKEN_DATA_I8>> \o LittleEndian(c.args[1], 1)
    ELSE IF c.fn = "aardwolf_write_data_i32" THEN <<TOKEN_DATA_I32>> \o LittleEndian(c.args[1], 4)
    ELSE <<>>

RECURSIVE recordsOfCalls(_)
recordsOfCalls(Calls) ==
    IF Calls = <<>> THEN <<>>
    ELSE recordOfCall(Head(Calls)) \o recordsOfCalls(Tail(Calls))

RECURSIVE opensOfCalls(_)
opensOfCalls(Calls) ==
    IF Calls = <<>> THEN 0 ELSE Head(Calls).opens + opensOfCalls(Tail(Calls))

\* What the trace file holds once the buffer of the FILE is written.
TraceFile == disk \o stream

\* C17: in the default build, after any sequence of API calls made one
\* after the other (aardwolf_write_header among them), the trace file was
\* opened at most once and consists of the header "AARD/D" "1" once, at
\* offset 0, followed by one intact record per call, in call order.
C17_HeaderOnceThenTheRecords ==
    (build = DefaultBuild /\ pc # "crashed" /\ trace # <<>>) =>
        /\ opensOfCalls(trace) <= 1
        /\ TraceFile = Header \o recordsOfCalls(trace)

endsWith(bytes, rec) ==
    /\ Len(bytes) >= Len(rec)
    /\ SubSeq(bytes, Len(bytes) - Len(rec) + 1, Len(bytes)) = rec

FnsOf(Calls) == [k \in DOMAIN Calls |-> Calls[k].fn]

\* "AARD/D" 0x31 0xFE "t1" 0x00 0xFF <u64 7> <u64 3> 0x13 <i32 42>
ExampleTrace ==
    <<65, 65, 82, 68, 47, 68, 49, 254, 116, 49, 0,
      255, 7, 0, 0, 0, 0, 0, 0, 0, 3, 0, 0, 0, 0, 0, 0, 0,
      19, 42, 0, 0, 0>>

\* C18: in the default build, aardwolf_write_statement(fileId, stmtId)
\* appends the token 0xFF, then fileId, then stmtId, each as a little-endian
\* u64; and the calls write_external("t1"), write_statement(7, 3),
\* write_data_i32(42) of a fresh process leave exactly the bytes
\* "AARD/D" 0x31 0xFE "t1" 0x00 0xFF <u64 7> <u64 3> 0x13 <i32 42>.
C18_StatementRecordHasBothIds ==
    (build = DefaultBuild /\ pc = "runtime" /\ trace # <<>>) =>
        /\ trace[Len(trace)].fn = "aardwolf_write_statement" =>
              endsWith(TraceFile,
                       <<TOKEN_STATEMENT>> \o LittleEndian(trace[Len(trace)].args[1], 8)
                                           \o LittleEndian(trace[Len(trace)].args[2], 8))
        /\ FnsOf(trace) = <<"aardwolf_write_external", "aardwolf_write_statement",
                            "aardwolf_write_data_i32">>
              => disk = ExampleTrace

\* C19: after every call of the API has returned, no byte of the trace is
\* left in the buffer of the FILE: all that was written, the header
\* included, is in the file.
C19_NothingStaysBuffered ==
    (pc = "runtime" /\ trace # <<>>) => stream = <<>>

\* C21: a statement carries the isArg flag (META_ARG in its metadata byte)
\* if and only if its instruction is a store whose first operand is a formal
\* argument; a return, call, invoke, branch or switch is never flagged.
C21_ArgFlagIffStoreOfArgument ==
    \A I \in Registered :
        ("isArg" \in flagsIn(getMetadata(InstrStmtMap[I])))
            <=> (Val(I).kind = "store" /\ Val(StoredValue(I)).kind = "arg")

\* C22: running the static serializer and the instrumenter leaves the
\* repository unchanged: no entry is added to or changed in the statement
\* map, the successor map, the per-function lists, the statement-id map, the
\* value-id map or the file-id map.
C22_PassesOnlyReadTheRepository ==
    [][(StaticData \/ DynamicData) => UNCHANGED repoVars]_vars

\* The count bytes exportStatement writes in the record of statement I,
\* ahead of the successors and ahead of the uses.
successorCountOf(I) == exportSuccessorList(Written(Repo, <<>>), Outgoing(Repo, I)).bytes[1]
useCountOf(I) == exportUses(Written(Repo, <<>>), InstrStmtMap[I]).bytes[1]

\* C23: in every serialized statement record the u8 successor count equals
\* the number of successor id pairs that follow it and the u8 use count the
\* number of use encodings that follow it, for any number of successors or
\* uses (more than 255 included).
C23_CountsAreTheListLengths ==
    artifact # <<>> =>
        \A I \in Registered :
            /\ successorCountOf(I) = Len(VecAt(InstrSucc, I))
            /\ useCountOf(I) = Cardinality(InstrStmtMap[I].In)

\* C24: the backward use walk (findInputs) terminates for every operand
\* graph, those with cyclic operand edges (a phi in a loop) included: the
\* detection is never inside a walk that does not end.
C24_UseWalkTerminates == pc # "hung"

\* The queue of the predecessor walk one iteration later: its content
\* depends on the queue and on BBBounds alone.
queueAfter(Q) ==
    IF Head(Q) \in DOMAIN BBBounds THEN Tail(Q) ELSE pushPreds(Tail(Q), Head(Q))

\* Within k iterations the queue Q holds the content Q0 again.
RECURSIVE comesBack(_, _, _)
comesBack(Q0, Q, k) ==
    /\ k > 0
    /\ Q # <<>>
    /\ Len(Q) <= MaxQueue
    /\ \/ queueAfter(Q) = Q0
       \/ comesBack(Q0, queueAfter(Q), k - 1)

\* C25: the cross-block predecessor walk of the successor reconstruction
\* terminates for every control-flow graph, also when empty blocks form a
\* cycle among the transitive predecessors of a non-empty block: the queue
\* of the walk never comes back to a content it held before (from there the
\* walk would repeat itself for ever).
C25_PredecessorWalkTerminates ==
    pc = "bfs" => ~comesBack(BBPred, BBPred, MaxQueue)

\* The user resolves to an Access.
resolves(U) == getValueAccess(U, MaxWalk).acc # <<>>

\* The operands the walk goes to from user U: the stored value of a store,
\* the instructions, globals and constant expressions among the operands of
\* any other user.
walkedFrom(U) ==
    IF Val(U).kind = "store"
    THEN {Val(U).ops[1]} \ {h \in {Val(U).ops[1]} : dynCastUser(h) = NullPtr}
    ELSE {Val(U).ops[k] : k \in DOMAIN Val(U).ops}
            \cap {h \in DOMAIN M.val : isaInstruction(h) \/ isaGlobalVariable(h) \/ isaConstantExpr(h)}

\* The users the walk from I stops at: those that resolve and that a path
\* of operands reaches from I over users that do not resolve.
RECURSIVE stopsFrom(_, _, _)
stopsFrom(Todo, Passed, Stops) ==
    IF Todo = {} THEN Stops
    ELSE LET U == CHOOSE x \in Todo : TRUE
             Ops == walkedFrom(U)
         IN  stopsFrom((Todo \cup {h \in Ops : ~resolves(h)}) \ (Passed \cup {U}),
                       Passed \cup {U},
                       Stops \cup {h \in Ops : resolves(h)})

StopsOf(I) == stopsFrom({I}, {}, {})

\* The variables read behind the users the walk stops at.
BehindStops(I) ==
    {r \in UNION {Reach(h) \ {h} : h \in StopsOf(I)} : IsVariable(r)}

\* Statement detection over the operand-graph modules alone: the modules
\* whose one located instruction varies over the instruction shapes.
InitShapes == Init /\ M \in ShapeModules

SpecShapes == InitShapes /\ [][Next]_vars

\* C26: the backward use walk never descends through a user that resolves
\* to an Access (other than the starting instruction): In holds the Access
\* of every user the walk stops at and nothing else, so the operands of
\* such a user contribute nothing to In through it (for f(g(x)), the
\* statement of the call of f uses Scalar(call g) and not x).
C26_WalkStopsAtResolvedUsers ==
    \A I \in Registered :
        InstrStmtMap[I].In = {getValueAccess(h, MaxWalk).acc[1] : h \in StopsOf(I)}

\* The statement of f(g(i)): In is the call of g, and the variable i behind
\* it is the root of no member of In.
C26_Witness ==
    \E I \in Registered :
        /\ isaCallInst(I)
        /\ \E h \in StopsOf(I) : isaCallInst(h) /\ InstrStmtMap[I].In = {makeScalar(h)}
        /\ BehindStops(I) # {}
        /\ BehindStops(I) \cap RootsOf(InstrStmtMap[I].In) = {}

\* C27: no successor list holds the same successor twice: the edge a -> b
\* is added at most once, also when a block is reached from one predecessor
\* over several CFG edges or over several paths of empty blocks.
C27_SuccessorsAreDistinct ==
    \A I \in DOMAIN InstrSucc :
        \A j, k \in DOMAIN InstrSucc[I] : InstrSucc[I][j] = InstrSucc[I][k] => j = k

\* The instructions that get their id in this step.
NewlyNumbered == DOMAIN StmtsIdMap' \ DOMAIN StmtsIdMap

\* C28: within one module no two registered instructions are assigned the
\* same (fileId, stmtId) pair, and the stmtIds are handed out as 1, 2, 3, ...
\* in the order of first registration, without gap and without reuse, across
\* all functions and files: every step keeps the ids given so far and gives
\* a newly registered instruction the number of instructions registered
\* before it plus one.
C28_IdsCountTheRegistrations ==
    [][/\ \A h \in DOMAIN StmtsIdMap :
              h \in DOMAIN StmtsIdMap' /\ StmtsIdMap'[h] = StmtsIdMap[h]
       /\ Cardinality(NewlyNumbered) <= 1
       /\ \A h \in NewlyNumbered : StmtsIdMap'[h][2] = Cardinality(DOMAIN StmtsIdMap) + 1
       /\ \A g, h \in DOMAIN StmtsIdMap' : StmtsIdMap'[g] = StmtsIdMap'[h] => g = h]_vars

\* Three instructions of two functions and two files are registered.
C28_Witness ==
    /\ DOMAIN StmtsIdMap = RepoInstrs
    /\ Cardinality({StmtsIdMap[h][1] : h \in RepoInstrs}) >= 2
    /\ \E h \in RepoInstrs :
          StmtsIdMap[h][2] = 3 /\ Cardinality(StmtIdsOfFile(StmtsIdMap[h][1])) = 1

\* C29: distinct source file paths registered in a module receive distinct
\* fileIds, also when the platform identity of a file cannot be obtained
\* (stat fails); the filenames trailer, written from the file-id map, then
\* never lists one fileId for two paths.
C29_PathsHaveDistinctFileIds ==
    \A F, G \in DOMAIN FilesIdMap : F # G => FilesIdMap[F] # FilesIdMap[G]

\* The statement records of a decoded artifact and what they refer to.
RecordsIn(D) == {D.body[k].stmt[1] : k \in {j \in DOMAIN D.body : D.body[j].token = TOKEN_STATEMENT}}
IdentitiesIn(D) == {S.id : S \in RecordsIn(D)}
SuccessorsIn(S) == {S.succs[k] : k \in DOMAIN S.succs}
FileIdsIn(S) == {S.id[1], S.loc.File} \cup {Succ[1] : Succ \in SuccessorsIn(S)}
TrailerIds(D) == {D.files[k].id : k \in DOMAIN D.files}

closed(D) ==
    \A S \in RecordsIn(D) :
        /\ SuccessorsIn(S) \subseteq IdentitiesIn(D)
        /\ FileIdsIn(S) \subseteq TrailerIds(D)

\* The statements StaticData writes a record for, and the file ids of the
\* trailer it writes.
Emitted == ModuleInstrs \cap Registered
WrittenFileIds == {FilesIdMap[F] : F \in DOMAIN FilesIdMap}

\* What the serializer wrote refers to what it wrote: the successors it
\* listed have a record, the files it named have an entry.
writtenClosed ==
    \A I \in Emitted :
        /\ \A k \in DOMAIN VecAt(InstrSucc, I) : InstrSucc[I][k] \in Emitted
        /\ StmtsIdMap[I][1] \in WrittenFileIds
        /\ InstrStmtMap[I].Loc.File \in DOMAIN FilesIdMap

\* C30: the static artifact is referentially closed: every (fileId, stmtId)
\* written as a successor is the identity of a statement whose record is in
\* the same artifact, and every fileId written in a statement record
\* (identity, successor or location) has an entry in the filenames trailer.
\* Checked on what the serializer wrote and, where the artifact can be read
\* back, on the records read from its bytes.
C30_ArtifactIsClosed ==
    artifact # <<>> =>
        /\ writtenClosed
        /\ decodeArtifact(artifact[1]).ok => closed(decodeArtifact(artifact[1]))

\* An artifact with a record whose successor lies in another file.
C30_Witness ==
    /\ artifact # <<>>
    /\ \E S \in RecordsIn(decodeArtifact(artifact[1])) :
          \E Succ \in SuccessorsIn(S) : Succ[1] # S.id[1]
    /\ Cardinality(TrailerIds(decodeArtifact(artifact[1]))) >= 2
====
